---- MODULE Spec2Model ----
(***************************************************************************)
(* Project Sentinel: triage orchestrator with its process-wide circuit     *)
(* breakers and the Start Triage route, the rate-limit middleware, and the *)
(* action routes (freeze-card, open-dispute, contact-customer,             *)
(* mark-false-positive).  Every handler is cut at its awaits: one action   *)
(* per synchronous stretch of code between two awaits.                     *)
(***************************************************************************)
EXTENDS Integers, Sequences, FiniteSets, TLC

\* ------------------------------------------------------------------------
\* Bounds of the exploration
\* ------------------------------------------------------------------------
MaxRuns == 5
MaxActive == 2
MaxStarts == 2
MaxFailures == 3
MaxClockTicks == 2
MaxStreams == 1
MaxTxns == 3
MaxLimit == 2
MaxTs == 2
MaxPieces == 3
MaxRedactions == 2

MaxRateSlots == 2
MaxActSlots == 2
MaxActRequests == 2
MaxActTicks == 2
MaxRateRequests == 4
MaxRateTicks == 4

\* ------------------------------------------------------------------------
\* Program constants
\* ------------------------------------------------------------------------
DefaultWindowMs == 60000
IdempotencyTtlSec == 3600
StoredOTP == "123456"
DefaultMaxRequests == 300
CircuitFailThreshold == 3
CircuitResetMs == 30000
FallbackScore == 50
RunDeadlineMs == 5000
DefaultScore == 30

\* Date columns are kept up to what the code reads from them: endedAt is null
\* or set, startedAt orders the rows by creation.
Null == -1
IsSet == 1

RunIds == 1..MaxRuns
AlertIds == {"a1", "a2"}
MissingAlert == "a0"

buildPlan == <<"getProfile", "recentTx", "riskSignals", "kbLookup", "decide", "proposeAction">>
StepNames == {buildPlan[j] : j \in 1..Len(buildPlan)}
\* An isStepCritical for which the fraud analysis is critical too.
isStepCritical_riskSignals(step) == step \in {"getProfile", "recentTx", "riskSignals"}

isStepCritical(step) == step \in {"getProfile", "recentTx"}

\* Clock step of the triage specification: one step stays inside the circuit
\* reset period, two steps leave it.
TriageTickMs == 20000

VARIABLES
  now,              \* Date.now()
  circuitBreakers,  \* TriageOrchestrator.circuitBreakers: step -> breaker, partial map
  activeRuns,       \* routes/triage activeRuns map (its key set)
  dbRun,            \* TriageRun rows in the data store
  dbTraces,         \* AgentTrace rows per run, in insertion order
  runPc,            \* where each request/run stands
  runAlert,         \* request.alertId
  runSeen,          \* what the in-flight lookup of the request returned
  runI,             \* loop index i of execute()
  traces,           \* this.traces
  context,          \* the context object of execute()
  fallbackUsed,     \* this.fallbackUsed
  events,           \* events emitted by the orchestrator, in emit order
  response,         \* HTTP response of the Start Triage request
  observed,         \* per step: the run of failed calls as an outside observer counts it
  failuresInjected, \* number of failures the environment has injected
  sse,              \* the event streams (GET /:runId/stream): run, state, what was written
  \* -- rate limiter --
  windowMs,         \* RATE_LIMIT_WINDOW_MS
  maxRequests,      \* RATE_LIMIT_MAX_REQUESTS
  rateKey,          \* redis: rate_limit:{clientId} -> value and expiry
  rlPc,             \* where each request stands in rateLimitMiddleware
  rlClient,         \* clientId of the request
  rlCurrent,        \* what redis.get returned to the request
  rlInfo,           \* rateLimitInfo of the request
  rlReply,          \* outcome: "next" or "429", with retryAfter
  rlOrdinal,        \* which request of its client's window the request is
  windowSeen,       \* per client: start of its window and requests handled in it
  passedAt,         \* per client: the times at which its requests were passed on
  rateRequests,     \* number of requests that have arrived
  \* -- action routes --
  cardStatus,       \* Card.status per card
  alertStatus,      \* Alert.status per alert
  cases,            \* Case rows, in insertion order (the id is the position)
  caseEvents,       \* CaseEvent rows, in insertion order
  idempotency,      \* redis: idempotency:{op}:{key} -> cached result and expiry
  aPc,              \* where each action request stands in its handler
  aReq,             \* the request: operation, body, Idempotency-Key, role, requestId
  aResult,          \* the result object the handler is about to cache and send
  aResp,            \* HTTP response: status code and body
  actRequests,      \* number of action requests that have arrived
  applied,          \* observer: per route and Idempotency-Key, the request carried out
  verified,         \* observer: the (card, OTP) pairs verifyOTP has accepted so far
  \* -- customer transactions route --
  txnTable,         \* Transaction rows: id -> ts and customerId
  pageFrom,         \* query parameter from (Null: absent)
  pageLimit,        \* query parameter limit
  cursor,           \* the cursor of the next request (<<>>: none)
  pageItems,        \* the ids of the items returned so far, in order
  hasNextPage,      \* pagination.hasNextPage of the last response
  pages,            \* number of requests made
  \* -- redactor --
  redactInput,      \* the value handed to the redactor
  redactOutputs,    \* the results of redacting it once, twice, ...
  hung,             \* <<run, i>>: the underlying call of step i never settles
  late,             \* <<run, i>>: the call of step i settled after its timeout
  policyInput,      \* what ComplianceAgent.runPolicyChecks is called with, and when
  policyChecks      \* the checks it returned (<<>>: not yet called)

triageVars == <<circuitBreakers, activeRuns, dbRun, dbTraces, runPc, runAlert, runSeen,
                runI, traces, context, fallbackUsed, events, response, observed,
                failuresInjected, sse>>

rateVars == <<windowMs, maxRequests, rateKey, rlPc, rlClient, rlCurrent, rlInfo, rlReply,
              rlOrdinal, windowSeen, passedAt, rateRequests>>

actionVars == <<cardStatus, alertStatus, cases, caseEvents, idempotency, aPc, aReq, aResult,
                aResp, actRequests, applied, verified>>

utilVars == <<txnTable, pageFrom, pageLimit, cursor, pageItems, hasNextPage, pages,
              redactInput, redactOutputs, hung, late, policyInput, policyChecks>>

vars == <<now, triageVars, rateVars, actionVars, utilVars>>

\* ------------------------------------------------------------------------
\* Circuit breaker registry (orchestrator.ts)
\* ------------------------------------------------------------------------
NoBreaker == [failures |-> 0, lastFailure |-> 0, isOpen |-> FALSE]

\* isCircuitOpen: the answer.
isCircuitOpen(cb, step, t) ==
  IF step \notin DOMAIN cb THEN FALSE
  ELSE IF cb[step].isOpen
       THEN IF t - cb[step].lastFailure > CircuitResetMs THEN FALSE ELSE TRUE
       ELSE FALSE

\* An isCircuitOpen that closes an expired circuit without resetting the
\* failure count.
circuitAfterCheck_keepFailures(cb, step, t) ==
  IF step \in DOMAIN cb /\ cb[step].isOpen /\ t - cb[step].lastFailure > CircuitResetMs
  THEN [cb EXCEPT ![step].isOpen = FALSE]
  ELSE cb

\* isCircuitOpen: its side effect on the registry (closes an expired circuit).
circuitAfterCheck(cb, step, t) ==
  IF step \in DOMAIN cb /\ cb[step].isOpen /\ t - cb[step].lastFailure > CircuitResetMs
  THEN [cb EXCEPT ![step].isOpen = FALSE, ![step].failures = 0]
  ELSE cb

recordFailure(cb, step, t) ==
  LET breaker == IF step \in DOMAIN cb THEN cb[step] ELSE NoBreaker
      failures == breaker.failures + 1
      updated == [failures |-> failures,
                  lastFailure |-> t,
                  isOpen |-> IF failures >= CircuitFailThreshold THEN TRUE ELSE breaker.isOpen]
  IN [s \in DOMAIN cb \cup {step} |-> IF s = step THEN updated ELSE cb[s]]

resetCircuitBreaker(cb, step) ==
  IF step \in DOMAIN cb
  THEN [cb EXCEPT ![step].failures = 0, ![step].isOpen = FALSE]
  ELSE cb

\* What an observer of the calls to one step has seen: the length of the
\* current run of failed calls, the time of the last failed call, and whether
\* three failures in a row have happened with the 30 s after the last failure
\* not yet over at the latest call.
NothingObserved == [consecutive |-> 0, lastFailure |-> 0, tripped |-> FALSE]

ObserveResult(o, ok, t) ==
  IF ok THEN [o EXCEPT !.consecutive = 0]
  ELSE [consecutive |-> o.consecutive + 1,
        lastFailure |-> t,
        tripped |-> o.tripped \/ o.consecutive + 1 >= CircuitFailThreshold]

ObserveCall(o, t) ==
  IF o.tripped /\ t - o.lastFailure > CircuitResetMs THEN NothingObserved ELSE o

\* ------------------------------------------------------------------------
\* Orchestrator helpers
\* ------------------------------------------------------------------------
NoResult == [kind |-> "none", score |-> 0, action |-> "null", text |-> <<>>,
             riskTier |-> "low", level |-> "low"]

AgentResult(score, action) ==
  [kind |-> "result", score |-> score, action |-> action, text |-> <<"a">>,
   riskTier |-> "low", level |-> "low"]

EmptyContext == [s \in StepNames |-> NoResult]

\* triggerFallback: the value written into the context.
fallbackValue(failedStep) ==
  IF failedStep = "riskSignals" THEN [kind |-> "fallback", score |-> FallbackScore, action |-> "null"]
  ELSE [kind |-> "fallback", score |-> 0, action |-> "null"]

\* Texts are sequences of characters.  "a" stands for any lower-case letter
\* and "5" for any digit but 1; the capitals are those of the replacement
\* text of a card number.
Letters == {"a", "R", "E", "D", "A", "C", "T"}
Digits == {"1", "5"}
WordChars == Letters \cup Digits
Separators == {"-", ".", " "}

Chars(n, c) == [j \in 1..n |-> c]

IsWordAt(t, i) == i >= 1 /\ i <= Len(t) /\ t[i] \in WordChars

\* \b between the characters i - 1 and i
boundary(t, i) == IsWordAt(t, i - 1) # IsWordAt(t, i)

\* The last index of the longest run of characters of S that starts at i
\* (i - 1 when t[i] is not in S).
RECURSIVE RunEnd(_, _, _)
RunEnd(t, i, S) == IF i <= Len(t) /\ t[i] \in S THEN RunEnd(t, i + 1, S) ELSE i - 1

\* PAN_PATTERN = /\b\d{13,19}\b/g: the end of the match that starts at i, or 0.
panEnd(t, i) ==
  LET e == RunEnd(t, i, Digits)
      n == e - i + 1
  IN IF boundary(t, i) /\ n >= 13 /\ n <= 19 /\ boundary(t, e + 1) THEN e ELSE 0

PanReplacement ==
  <<"*", "*", "*", "*", "R", "E", "D", "A", "C", "T", "E", "D", "*", "*", "*", "*">>

RECURSIVE replacePan(_, _)
replacePan(t, i) ==
  IF i > Len(t) THEN <<>>
  ELSE IF panEnd(t, i) # 0 THEN PanReplacement \o replacePan(t, panEnd(t, i) + 1)
  ELSE <<t[i]>> \o replacePan(t, i + 1)

\* EMAIL_PATTERN = /\b[A-Za-z0-9._%+-]+@[A-Za-z0-9.-]+\.[A-Z|a-z]{2,}\b/g
LocalChars == Letters \cup Digits \cup {".", "-", "+"}
DomainChars == Letters \cup Digits \cup {".", "-"}
TldChars == Letters

\* The match that starts at i: where its local part ends and where it ends
\* (end = 0: no match).  The quantifiers are greedy: the longest domain
\* before the last dot that a top-level part of two or more letters and a \b
\* can follow, then the longest such top-level part.
emailMatch(t, i) ==
  LET l == RunEnd(t, i, LocalChars)
      at == l + 1
      dMax == RunEnd(t, at + 1, DomainChars)
      tldEnds(d) == {e \in (d + 3)..RunEnd(t, d + 2, TldChars) : boundary(t, e + 1)}
      dEnds == {d \in (at + 1)..dMax : d + 1 <= Len(t) /\ t[d + 1] = "." /\ tldEnds(d) # {}}
      dEnd == CHOOSE d \in dEnds : \A x \in dEnds : x <= d
      tEnd == CHOOSE e \in tldEnds(dEnd) : \A x \in tldEnds(dEnd) : x <= e
  IN IF /\ l >= i /\ boundary(t, i)
        /\ at <= Len(t) /\ t[at] = "@"
        /\ dEnds # {}
     THEN [local |-> l, end |-> tEnd]
     ELSE [local |-> 0, end |-> 0]

\* The replacement callback: two characters of the local part, then ***.
maskEmail(local, domain) ==
  (IF Len(local) > 2 THEN SubSeq(local, 1, 2) ELSE <<>>) \o <<"*", "*", "*", "@">> \o domain

RECURSIVE replaceEmail(_, _)
replaceEmail(t, i) ==
  IF i > Len(t) THEN <<>>
  ELSE LET m == emailMatch(t, i)
       IN IF m.end # 0
          THEN maskEmail(SubSeq(t, i, m.local), SubSeq(t, m.local + 2, m.end))
               \o replaceEmail(t, m.end + 1)
          ELSE <<t[i]>> \o replaceEmail(t, i + 1)

\* PHONE_PATTERN = /(\+?1[-.\s]?)?\(?([0-9]{3})\)?[-.\s]?([0-9]{3})[-.\s]?([0-9]{4})/g
\* as the sequence of its one-character elements.
El(set, optional) == [set |-> set, optional |-> optional]
PhonePrefix == <<El({"+"}, TRUE), El({"1"}, FALSE), El(Separators, TRUE)>>
PhoneNumber ==
  <<El({"("}, TRUE), El(Digits, FALSE), El(Digits, FALSE), El(Digits, FALSE), El({")"}, TRUE),
    El(Separators, TRUE), El(Digits, FALSE), El(Digits, FALSE), El(Digits, FALSE),
    El(Separators, TRUE), El(Digits, FALSE), El(Digits, FALSE), El(Digits, FALSE),
    El(Digits, FALSE)>>

\* Backtracking match of the elements k.. of pattern p at position i: the
\* index after the match, or 0.  An optional element is first tried present.
RECURSIVE matchFrom(_, _, _, _)
matchFrom(t, i, p, k) ==
  IF k > Len(p) THEN i
  ELSE LET taken == IF i <= Len(t) /\ t[i] \in p[k].set
                    THEN matchFrom(t, i + 1, p, k + 1) ELSE 0
       IN IF taken # 0 THEN taken
          ELSE IF p[k].optional THEN matchFrom(t, i, p, k + 1)
          ELSE 0

\* The index after the phone match that starts at i, or 0.
phoneEnd(t, i) ==
  LET withPrefix == matchFrom(t, i, PhonePrefix \o PhoneNumber, 1)
  IN IF withPrefix # 0 THEN withPrefix ELSE matchFrom(t, i, PhoneNumber, 1)

PhoneReplacement == <<"*", "*", "*", "-", "*", "*", "*", "-", "*", "*", "*", "*">>

RECURSIVE replacePhone(_, _)
replacePhone(t, i) ==
  IF i > Len(t) THEN <<>>
  ELSE IF phoneEnd(t, i) # 0 THEN PhoneReplacement \o replacePhone(t, phoneEnd(t, i))
  ELSE <<t[i]>> \o replacePhone(t, i + 1)

\* redactText: card numbers, then e-mail addresses, then phone numbers.
redactText(text) == replacePhone(replaceEmail(replacePan(text, 1), 1), 1)

\* redactObject: every string of the object goes through redactText (the
\* strings of kind and action hold no PII).
RECURSIVE redactObject(_)
redactObject(obj) ==
  IF "text" \in DOMAIN obj THEN [obj EXCEPT !.text = redactText(@)]
  ELSE IF "error" \in DOMAIN obj THEN [obj EXCEPT !.error = redactText(@)]
  ELSE IF "nested" \in DOMAIN obj THEN [obj EXCEPT !.nested = redactObject(@)]
  ELSE obj

\* The message of the error of executeWithTimeout.
TimeoutMessage == <<"a">>

\* The detail of a trace: the redacted result of a successful step, the
\* error message of a failed one.
traceDetail(ok, res, msg) == IF ok THEN redactObject(res) ELSE [error |-> msg]

Trace(seq, step, ok, detail) == [seq |-> seq, step |-> step, ok |-> ok, detail |-> detail]

\* generateDecision
\* FraudAgent.proposeAction: the action analyzeRisk puts into its result.
proposeAction(score) ==
  IF score >= 80 THEN "freeze_card" ELSE IF score >= 50 THEN "open_dispute" ELSE "monitor"

\* InsightsAgent.generateRiskAssessment: the level of the insights.
generateRiskAssessment(riskSignals, riskTier) ==
  LET score == IF riskSignals.score = 0 THEN DefaultScore ELSE riskSignals.score
      level == IF score >= 80 THEN "high" ELSE IF score >= 50 THEN "medium" ELSE "low"
  IN IF riskTier = "high" /\ level = "medium" THEN "high" ELSE level

\* context.riskSignals || { score: 30, ... } and context.decide || { level: 'low' }
riskSignalsOrDefault(ctx) ==
  IF ctx["riskSignals"].kind = "none" THEN [NoResult EXCEPT !.score = DefaultScore]
  ELSE ctx["riskSignals"]

\* A determineAction that looks at the level of the insights before the
\* fraud agent's recommendation.
determineAction_levelFirst(riskSignals, insights) ==
  IF insights.level = "high" THEN "freeze_card"
  ELSE IF riskSignals.action = "freeze_card" THEN "freeze_card"
  ELSE IF riskSignals.action = "open_dispute" THEN "open_dispute"
  ELSE "contact_customer"

\* ComplianceAgent.determineAction
determineAction(riskSignals, insights) ==
  LET riskLevel == insights.level
      riskScore == IF riskSignals.score = 0 THEN DefaultScore ELSE riskSignals.score
  IN IF riskSignals.action = "freeze_card" THEN "freeze_card"
     ELSE IF riskSignals.action = "open_dispute" THEN "open_dispute"
     ELSE IF riskSignals.action = "monitor" THEN "contact_customer"
     ELSE IF riskLevel = "high" \/ riskScore >= 80 THEN "freeze_card"
     ELSE IF riskLevel = "medium" \/ riskScore >= 50 THEN "open_dispute"
     ELSE IF riskScore >= 30 THEN "contact_customer"
     ELSE "false_positive"

\* What the agent of a step returns in the context ctx, res being what it
\* read or computed from outside the context (the score of the fraud
\* analysis, the customer's risk tier, the text of the result).
stepResult(step, ctx, res) ==
  CASE step = "riskSignals" -> [res EXCEPT !.action = proposeAction(res.score)]
    [] step = "decide" ->
         [res EXCEPT !.level = generateRiskAssessment(riskSignalsOrDefault(ctx), res.riskTier)]
    [] step = "proposeAction" ->
         [res EXCEPT !.action = determineAction(riskSignalsOrDefault(ctx), ctx["decide"])]
    [] OTHER -> res

riskOfScore(score, fb) ==
  LET risk == IF score >= 80 THEN "high" ELSE IF score >= 50 THEN "medium" ELSE "low"
  IN IF fb /\ risk = "high" THEN "medium" ELSE risk

generateDecision(ctx, fb) ==
  LET score == IF ctx["riskSignals"].kind = "none" THEN DefaultScore ELSE ctx["riskSignals"].score
      complianceAction == IF ctx["proposeAction"].kind = "none" THEN "contact_customer"
                          ELSE ctx["proposeAction"].action
      risk == riskOfScore(score, fb)
  IN [risk |-> risk,
      proposedAction |-> IF complianceAction # "null" THEN complianceAction
                         ELSE IF risk = "high" THEN "freeze_card"
                         ELSE IF risk = "medium" THEN "open_dispute"
                         ELSE "false_positive",
      score |-> score,
      confidenceTenths |-> IF fb THEN (IF score * 7 < 700 THEN score * 7 ELSE 700)
                           ELSE score * 10,
      fallbackUsed |-> fb]

NoRun == [exists |-> FALSE, alertId |-> "", startedAt |-> Null, endedAt |-> Null,
          risk |-> "", fallbackUsed |-> FALSE]

\* Runs of an alert whose row has endedAt = null (the include of prisma.alert.findUnique).
OpenRunsOf(a) == {x \in RunIds : dbRun[x].exists /\ dbRun[x].alertId = a /\ dbRun[x].endedAt = Null}

\* orderBy startedAt desc, take 1
LatestOf(S) == {x \in S : \A y \in S : dbRun[y].startedAt <= dbRun[x].startedAt}

InFlight == {x \in RunIds : runPc[x] \notin {"idle", "rejected", "done", "failed"}}

\* ------------------------------------------------------------------------
\* Event stream helpers (GET /:runId/stream)
\* ------------------------------------------------------------------------
StreamIds == 1..MaxStreams

\* state: "idle" (no request yet), "open", "ended" (res.end() was called).
\* from: the number of events the run had emitted when the listeners were
\* attached.  timer: the setTimeout of the decision_finalized handler.
NoStream == [run |-> 0, state |-> "idle", attached |-> FALSE, from |-> 0, log |-> <<>>,
             timer |-> "none"]

eventHandler_prepend(log, e) == <<e>> \o log

\* eventHandler: res.write of one event
eventHandler(log, e) == Append(log, e)

\* The listeners of one stream run for the events evs, emitted in this order.
RECURSIVE onEvents(_, _)
onEvents(st, evs) ==
  IF evs = <<>> THEN st
  ELSE LET e == Head(evs)
           written == IF st.state = "open" THEN eventHandler(st.log, e) ELSE st.log
           st2 == [st EXCEPT !.log = written,
                             !.timer = IF e[1] = "decision_finalized" /\ @ = "none"
                                       THEN "pending" ELSE @,
                             !.state = IF e[1] = "error" /\ @ = "open" THEN "ended" ELSE @]
       IN onEvents(st2, Tail(evs))

\* ------------------------------------------------------------------------
\* Rate limiter helpers (middleware/rateLimit.ts)
\* ------------------------------------------------------------------------
Clients == {"c1", "c2"}
RateSlots == 1..MaxRateSlots

\* Math.ceil(a / b) for b > 0
CeilDiv(a, b) == -((-a) \div b)

NoKey == [present |-> FALSE, count |-> 0, resetTime |-> 0, expireAt |-> 0]
NoInfo == [count |-> 0, resetTime |-> 0]
NoReply == [status |-> "", retryAfter |-> 0]
NoWindow == [start |-> Null, seen |-> 0]

\* redis.get(key): null once the key has outlived its TTL
redisGet(k, t) == IF k.present /\ t <= k.expireAt THEN [count |-> k.count, resetTime |-> k.resetTime]
                  ELSE NoInfo

\* A window update in which every counted request moves resetTime.
nextRateLimitInfo_sliding(current, t, w) ==
  IF current # NoInfo /\ t <= current.resetTime
  THEN [count |-> current.count + 1, resetTime |-> t + w]
  ELSE [count |-> 1, resetTime |-> t + w]

\* lines 21-31: the new rateLimitInfo from what redis.get returned
nextRateLimitInfo(current, t, w) ==
  IF current # NoInfo
  THEN IF t > current.resetTime
       THEN [count |-> 1, resetTime |-> t + w]
       ELSE [count |-> current.count + 1, resetTime |-> current.resetTime]
  ELSE [count |-> 1, resetTime |-> t + w]

\* redis.setex(key, Math.ceil(windowMs / 1000), value)
redisSetex(info, t, w) ==
  [present |-> TRUE, count |-> info.count, resetTime |-> info.resetTime,
   expireAt |-> t + CeilDiv(w, 1000) * 1000]

\* line 34
retryAfterOf(info, t) == CeilDiv(info.resetTime - t, 1000)

overLimit_offByOne(info, n) == info.count >= n

\* line 42
overLimit(info, n) == info.count > n

\* The window of a client as an observer counts it: it starts with the first
\* request and lasts w ms; a request later than that starts the next one.
ObserveRequest(win, t, w) ==
  IF win.start = Null \/ t > win.start + w THEN [start |-> t, seen |-> 1]
  ELSE [win EXCEPT !.seen = @ + 1]

\* ------------------------------------------------------------------------
\* Action routes helpers (routes/action)
\* ------------------------------------------------------------------------
CardIds == {"card1", "card2"}
MissingCard == "card0"
ActAlertIds == {"a1"}
TxnIds == {"t1"}
MissingTxn == "t0"
IdemKeys == {"k1"}
ActSlots == 1..MaxActSlots

\* The alert raised for a transaction (alert.suspectTxnId).
AlertOfTxn(t) == IF t = "t1" THEN "a1" ELSE ""

\* A response payload; timestamp is new Date() at the time the result is built.
NoBody == [status |-> "", requestId |-> 0, cardId |-> "", caseId |-> 0, message |-> "",
           timestamp |-> Null]
\* A response: to is the request it answers, named the card that request
\* named, at the point of the handler that sent it.
NoResp == [code |-> 0, body |-> NoBody, to |-> 0, named |-> "", at |-> ""]
NoReq == [op |-> "", cardId |-> "", otp |-> "", alertId |-> "", txnId |-> "", key |-> "",
          role |-> "", requestId |-> 0]
NoEntry == [present |-> FALSE, body |-> NoBody, expireAt |-> 0]
NotApplied == [done |-> FALSE, body |-> NoBody, at |-> 0]
ActionOps == {"freeze", "dispute", "contact", "false_positive"}

ErrorBody(msg) == [NoBody EXCEPT !.message = msg]

\* The error of each route's catch block.
FailureMessage(op) ==
  IF op = "freeze" THEN "Failed to freeze card"
  ELSE IF op = "dispute" THEN "Failed to open dispute"
  ELSE IF op = "contact" THEN "Failed to contact customer"
  ELSE "Failed to mark false positive"

idemGet_alwaysMiss(cache, op, key, t) == NoBody

\* redis.get(`idempotency:${op}:${key}`)
idemGet(cache, op, key, t) ==
  IF cache[<<op, key>>].present /\ t <= cache[<<op, key>>].expireAt
  THEN cache[<<op, key>>].body ELSE NoBody

\* A setex that stores nothing.
idemSetex_skip(cache, op, key, body, t) == cache

\* redis.setex(`idempotency:${op}:${key}`, 3600, JSON.stringify(result))
idemSetex(cache, op, key, body, t) ==
  [cache EXCEPT ![<<op, key>>] = [present |-> TRUE, body |-> body,
                                  expireAt |-> t + IdempotencyTtlSec * 1000]]

verifyOTP_acceptAll(cardId, providedOTP) == TRUE

\* verifyOTP
verifyOTP(cardId, providedOTP) == StoredOTP = providedOTP

Case(customerTxn, type, status, reasonCode) ==
  [txnId |-> customerTxn, type |-> type, status |-> status, reasonCode |-> reasonCode]

CaseEvent(caseId, action) == [caseId |-> caseId, action |-> action]

\* prisma.case.findFirst({ txnId, type: 'DISPUTE', status in [OPEN, PENDING] })
existingDispute(cs, t) ==
  LET hits == {j \in 1..Len(cs) : cs[j].txnId = t /\ cs[j].type = "DISPUTE"
                                  /\ cs[j].status \in {"OPEN", "PENDING"}}
  IN IF hits = {} THEN 0 ELSE CHOOSE j \in hits : \A h \in hits : j <= h

\* The request in slot q repeats, under the same Idempotency-Key and within
\* the TTL, a request of its route that was carried out.
IsReplay(q) ==
  /\ aReq[q].key # ""
  /\ applied[<<aReq[q].op, aReq[q].key>>].done
  /\ now <= applied[<<aReq[q].op, aReq[q].key>>].at + IdempotencyTtlSec * 1000

\* ------------------------------------------------------------------------
\* Initial state
\* ------------------------------------------------------------------------
ActionInit(status) ==
  /\ cardStatus = [c \in CardIds |-> status]
  /\ alertStatus = [a \in ActAlertIds |-> "OPEN"]
  /\ cases = <<>>
  /\ caseEvents = <<>>
  /\ idempotency = [k \in {"freeze", "dispute"} \X IdemKeys |-> NoEntry]
  /\ aPc = [q \in ActSlots |-> "idle"]
  /\ aReq = [q \in ActSlots |-> NoReq]
  /\ aResult = [q \in ActSlots |-> NoBody]
  /\ aResp = [q \in ActSlots |-> NoResp]
  /\ actRequests = 0
  /\ applied = [k \in ActionOps \X IdemKeys |-> NotApplied]
  /\ verified = {}

RateInit(w, n) ==
  /\ windowMs = w
  /\ maxRequests = n
  /\ rateKey = [c \in Clients |-> NoKey]
  /\ rlPc = [q \in RateSlots |-> "idle"]
  /\ rlClient = [q \in RateSlots |-> ""]
  /\ rlCurrent = [q \in RateSlots |-> NoInfo]
  /\ rlInfo = [q \in RateSlots |-> NoInfo]
  /\ rlReply = [q \in RateSlots |-> NoReply]
  /\ rlOrdinal = [q \in RateSlots |-> 0]
  /\ windowSeen = [c \in Clients |-> NoWindow]
  /\ passedAt = [c \in Clients |-> <<>>]
  /\ rateRequests = 0

\* No transactions, nothing to redact.
UtilInit ==
  /\ txnTable = <<>>
  /\ pageFrom = Null
  /\ pageLimit = 1
  /\ cursor = <<>>
  /\ pageItems = <<>>
  /\ hasNextPage = TRUE
  /\ pages = 0
  /\ redactInput = <<>>
  /\ redactOutputs = <<>>
  /\ hung = {}
  /\ late = {}
  /\ policyInput = <<>>
  /\ policyChecks = <<>>

TriageInit ==
  /\ circuitBreakers = <<>>
  /\ activeRuns = {}
  /\ dbRun = [r \in RunIds |-> NoRun]
  /\ dbTraces = [r \in RunIds |-> <<>>]
  /\ runPc = [r \in RunIds |-> "idle"]
  /\ runAlert = [r \in RunIds |-> ""]
  /\ runSeen = [r \in RunIds |-> 0]
  /\ runI = [r \in RunIds |-> 0]
  /\ traces = [r \in RunIds |-> <<>>]
  /\ context = [r \in RunIds |-> EmptyContext]
  /\ fallbackUsed = [r \in RunIds |-> FALSE]
  /\ events = [r \in RunIds |-> <<>>]
  /\ response = [r \in RunIds |-> 0]
  /\ observed = [s \in StepNames |-> NothingObserved]
  /\ failuresInjected = 0
  /\ sse = [s \in StreamIds |-> NoStream]

Init ==
  /\ now = 0
  /\ TriageInit
  /\ RateInit(DefaultWindowMs, DefaultMaxRequests)
  /\ ActionInit("ACTIVE")
  /\ UtilInit

\* ------------------------------------------------------------------------
\* Start Triage route (routes/triage, POST /)
\* ------------------------------------------------------------------------
\* The request arrives and prisma.alert.findUnique is answered by the store.
StartLookup(r, a) ==
  /\ runPc[r] = "idle"
  /\ IF r = 1 THEN TRUE ELSE runPc[r - 1] # "idle"
  /\ Cardinality(InFlight) < MaxActive
  /\ runPc' = [runPc EXCEPT ![r] = "looked"]
  /\ runAlert' = [runAlert EXCEPT ![r] = a]
  /\ \E seen \in (IF OpenRunsOf(a) = {} THEN {0} ELSE LatestOf(OpenRunsOf(a))) :
       runSeen' = [runSeen EXCEPT ![r] = seen]
  /\ UNCHANGED <<now, rateVars, utilVars, actionVars, circuitBreakers, activeRuns, dbRun, dbTraces, runI, traces, context,
                 fallbackUsed, events, response, observed, failuresInjected, sse>>

\* The handler continues after the lookup: 404, 409, or construct the
\* orchestrator, register it and call execute(), which issues triageRun.create.
StartDecide(r) ==
  /\ runPc[r] = "looked"
  /\ IF runAlert[r] \notin AlertIds
     THEN /\ response' = [response EXCEPT ![r] = 404]
          /\ runPc' = [runPc EXCEPT ![r] = "rejected"]
          /\ UNCHANGED activeRuns
     ELSE IF runSeen[r] # 0
     THEN /\ response' = [response EXCEPT ![r] = 409]
          /\ runPc' = [runPc EXCEPT ![r] = "rejected"]
          /\ UNCHANGED activeRuns
     ELSE /\ response' = [response EXCEPT ![r] = 200]
          /\ runPc' = [runPc EXCEPT ![r] = "create"]
          /\ activeRuns' = activeRuns \cup {r}
  /\ UNCHANGED <<now, rateVars, utilVars, actionVars, circuitBreakers, dbRun, dbTraces, runAlert, runSeen, runI, traces,
                 context, fallbackUsed, events, observed, failuresInjected, sse>>

\* ------------------------------------------------------------------------
\* TriageOrchestrator.execute
\* ------------------------------------------------------------------------
\* this.emit(...): the events run r emits in this step reach the listeners
\* that the streams have attached to its orchestrator.
Deliver(r) ==
  LET emitted == SubSeq(events'[r], Len(events[r]) + 1, Len(events'[r]))
  IN sse' = [s \in StreamIds |->
               IF sse[s].attached /\ sse[s].run = r THEN onEvents(sse[s], emitted) ELSE sse[s]]

ExecuteFails_noEvent(r) ==
  /\ events' = events
  /\ runPc' = [runPc EXCEPT ![r] = "failed"]
  /\ activeRuns' = activeRuns \ {r}
  /\ failuresInjected' = failuresInjected + 1

\* catch of execute(): emit 'error', rethrow; the route's finally removes the run.
ExecuteFails(r) ==
  /\ events' = [events EXCEPT ![r] = Append(@, <<"error">>)]
  /\ runPc' = [runPc EXCEPT ![r] = "failed"]
  /\ activeRuns' = activeRuns \ {r}
  /\ failuresInjected' = failuresInjected + 1

\* The loop of execute() from index i on, up to the next await: executeStep
\* checks the circuit of step i; an open circuit makes it return false at once
\* (no trace, no event), and the loop goes on or, for a critical step, breaks.
\* stop tells where the loop stands afterwards: "await" (the agent of step i
\* was called), "fallback" (critical step i skipped) or "end" (plan exhausted).
RECURSIVE LoopFrom(_, _, _, _)
LoopFrom(i, cb, obs, t) ==
  IF i >= Len(buildPlan) THEN [i |-> i, cb |-> cb, obs |-> obs, stop |-> "end"]
  ELSE LET step == buildPlan[i + 1]
           cb2 == circuitAfterCheck(cb, step, t)
           obs2 == [obs EXCEPT ![step] = ObserveCall(@, t)]
       IN IF isCircuitOpen(cb, step, t)
          THEN IF isStepCritical(step)
               THEN [i |-> i, cb |-> cb2, obs |-> obs2, stop |-> "fallback"]
               ELSE LoopFrom(i + 1, cb2, obs2, t)
          ELSE [i |-> i, cb |-> cb2, obs |-> obs2, stop |-> "await"]

\* triggerFallback followed by break: the run goes on to generateDecision and
\* saveResults, whose first write is then in flight.
TriggerFallback(r, step, ctx, evs) ==
  /\ fallbackUsed' = [fallbackUsed EXCEPT ![r] = TRUE]
  /\ events' = [events EXCEPT ![r] = Append(evs, <<"fallback_triggered", step>>)]
  /\ context' = [context EXCEPT ![r] = [ctx EXCEPT ![step] = fallbackValue(step)]]
  /\ runPc' = [runPc EXCEPT ![r] = "saveRun"]

\* execute() runs its loop from index i with the context and the events so far.
RunLoop(r, i, cb, obs, ctx, evs) ==
  LET L == LoopFrom(i, cb, obs, now)
  IN /\ circuitBreakers' = L.cb
     /\ observed' = L.obs
     /\ runI' = [runI EXCEPT ![r] = L.i]
     /\ IF L.stop = "fallback"
        THEN TriggerFallback(r, buildPlan[L.i + 1], ctx, evs)
        ELSE /\ runPc' = [runPc EXCEPT ![r] = IF L.stop = "await" THEN "await" ELSE "saveRun"]
             /\ context' = [context EXCEPT ![r] = ctx]
             /\ events' = [events EXCEPT ![r] = evs]
             /\ UNCHANGED fallbackUsed

\* prisma.triageRun.create is answered; on success the plan is built and
\* emitted and the loop starts.
RunCreate(r, ok) ==
  /\ runPc[r] = "create"
  /\ IF ok
     THEN /\ dbRun' = [dbRun EXCEPT ![r] = [exists |-> TRUE, alertId |-> runAlert[r],
                                            startedAt |-> Cardinality({x \in RunIds : dbRun[x].exists}),
                                            endedAt |-> Null,
                                            risk |-> "", fallbackUsed |-> FALSE]]
          /\ RunLoop(r, 0, circuitBreakers, observed, context[r], Append(events[r], <<"plan_built">>))
          /\ UNCHANGED <<activeRuns, failuresInjected>>
     ELSE /\ failuresInjected < MaxFailures
          /\ ExecuteFails(r)
          /\ UNCHANGED <<dbRun, circuitBreakers, observed, runI, context, fallbackUsed>>
  /\ Deliver(r)
  /\ UNCHANGED <<now, rateVars, utilVars, actionVars, dbTraces, runAlert, runSeen, traces, response>>

\* The agent call of step runI[r] has settled (result, rejection or timeout):
\* the rest of executeStep, then the loop up to the next await.
StepFinish(r, ok, res, msg) ==
  /\ runPc[r] = "await"
  /\ LET step == buildPlan[runI[r] + 1]
         obs == [observed EXCEPT ![step] = ObserveResult(@, ok, now)]
         result == stepResult(step, context[r], res)
     IN /\ traces' = [traces EXCEPT ![r] =
                        Append(@, Trace(runI[r], step, ok, traceDetail(ok, result, msg)))]
        /\ IF ok
           THEN /\ RunLoop(r, runI[r] + 1, resetCircuitBreaker(circuitBreakers, step), obs,
                           [context[r] EXCEPT ![step] = result],
                           Append(events[r], <<"tool_update", step, TRUE>>))
                /\ UNCHANGED failuresInjected
           ELSE /\ failuresInjected < MaxFailures
                /\ failuresInjected' = failuresInjected + 1
                /\ IF isStepCritical(step)
                   THEN /\ TriggerFallback(r, step, context[r],
                                           Append(events[r], <<"tool_update", step, FALSE>>))
                        /\ circuitBreakers' = recordFailure(circuitBreakers, step, now)
                        /\ observed' = obs
                        /\ UNCHANGED runI
                   ELSE RunLoop(r, runI[r] + 1, recordFailure(circuitBreakers, step, now), obs,
                                context[r], Append(events[r], <<"tool_update", step, FALSE>>))
  /\ Deliver(r)
  /\ UNCHANGED <<now, rateVars, utilVars, actionVars, activeRuns, dbRun, dbTraces, runAlert, runSeen, response>>

\* The first write of saveResults (triageRun.update, carrying the result of
\* generateDecision) is answered.
SaveRun(r, ok) ==
  /\ runPc[r] = "saveRun"
  /\ IF ok
     THEN /\ dbRun' = [dbRun EXCEPT ![r].endedAt = IsSet,
                                    ![r].risk = generateDecision(context[r], fallbackUsed[r]).risk,
                                    ![r].fallbackUsed = fallbackUsed[r]]
          /\ runPc' = [runPc EXCEPT ![r] = "saveTraces"]
          /\ UNCHANGED <<events, activeRuns, failuresInjected>>
     ELSE /\ failuresInjected < MaxFailures
          /\ ExecuteFails(r)
          /\ UNCHANGED dbRun
  /\ Deliver(r)
  /\ UNCHANGED <<now, rateVars, utilVars, actionVars, circuitBreakers, dbTraces, runAlert, runSeen, runI, traces, context,
                 fallbackUsed, response, observed>>

\* The trace loop of saveResults: the first k traces are stored; k < n means
\* the (k+1)-th create threw.  On success decision_finalized is emitted.
SaveTraces(r, k) ==
  /\ runPc[r] = "saveTraces"
  /\ k \in 0..Len(traces[r])
  /\ dbTraces' = [dbTraces EXCEPT ![r] = SubSeq(traces[r], 1, k)]
  /\ IF k = Len(traces[r])
     THEN /\ events' = [events EXCEPT ![r] = Append(@, <<"decision_finalized">>)]
          /\ runPc' = [runPc EXCEPT ![r] = "done"]
          /\ activeRuns' = activeRuns \ {r}
          /\ UNCHANGED failuresInjected
     ELSE /\ failuresInjected < MaxFailures
          /\ ExecuteFails(r)
  /\ Deliver(r)
  /\ UNCHANGED <<now, rateVars, utilVars, actionVars, circuitBreakers, dbRun, runAlert, runSeen, runI, traces, context,
                 fallbackUsed, response, observed>>

TriageTick ==
  /\ now < MaxClockTicks * TriageTickMs
  /\ now' = now + TriageTickMs
  /\ UNCHANGED <<triageVars, rateVars, utilVars, actionVars>>

\* ------------------------------------------------------------------------
\* Event stream route (GET /:runId/stream)
\* ------------------------------------------------------------------------
StreamUnchanged ==
  UNCHANGED <<now, rateVars, utilVars, actionVars, circuitBreakers, activeRuns, dbRun, dbTraces, runPc,
              runAlert, runSeen, runI, traces, context, fallbackUsed, events, response,
              observed, failuresInjected>>

\* A client asks for the stream of run r: without an orchestrator in
\* activeRuns the stream is ended at once, else the listeners are attached.
Subscribe(s, r) ==
  /\ sse[s].state = "idle"
  /\ IF s = 1 THEN TRUE ELSE sse[s - 1].state # "idle"
  /\ sse' = [sse EXCEPT ![s] =
               IF r \in activeRuns
               THEN [NoStream EXCEPT !.run = r, !.state = "open", !.attached = TRUE,
                                     !.from = Len(events[r])]
               ELSE [NoStream EXCEPT !.run = r, !.state = "ended"]]
  /\ StreamUnchanged

\* req.on('close'): the client went away; the listeners stay attached.
StreamClose(s) ==
  /\ sse[s].state = "open"
  /\ sse' = [sse EXCEPT ![s].state = "ended"]
  /\ StreamUnchanged

\* The timeout set by the decision_finalized handler fires: 'completed' is
\* written and the response ended (a write to an ended response is lost).
StreamTimer(s) ==
  /\ sse[s].timer = "pending"
  /\ sse' = [sse EXCEPT ![s].timer = "fired",
                        ![s].log = IF sse[s].state = "open" THEN Append(@, <<"completed">>) ELSE @,
                        ![s].state = "ended"]
  /\ StreamUnchanged

\* Results the agents hand back.
TriageResults == {AgentResult(60, "open_dispute")}

\* Inputs of the triage specification: MaxStarts requests, each naming the
\* alert a1 or an alert that does not exist; every agent and every write to
\* the data store may fail.
StartIds == 1..MaxStarts

Next ==
  \/ \E r \in StartIds, a \in {"a1", MissingAlert} : StartLookup(r, a)
  \/ \E r \in StartIds : StartDecide(r)
  \/ \E r \in StartIds, ok \in BOOLEAN : RunCreate(r, ok)
  \/ \E r \in StartIds, ok \in BOOLEAN, res \in TriageResults :
       StepFinish(r, ok, res, TimeoutMessage)
  \/ \E r \in StartIds, ok \in BOOLEAN : SaveRun(r, ok)
  \/ \E r \in StartIds, k \in 0..Len(buildPlan) : SaveTraces(r, k)

Spec == Init /\ [][Next]_vars

\* Inputs of the circuit breaker specification: the first request names alert
\* a1, the later ones a2 and arrive one after the other, so that only the
\* first run overlaps other runs; the agent of riskSignals may fail, the other
\* agents and the data store answer.
BreakerFailSteps == {"riskSignals"}
BreakerAlert(r) == IF r = 1 THEN "a1" ELSE "a2"
BreakerOutcomes(r) ==
  IF runPc[r] = "await" /\ buildPlan[runI[r] + 1] \in BreakerFailSteps THEN BOOLEAN ELSE {TRUE}

NextBreaker ==
  \/ \E r \in RunIds : InFlight \subseteq {1} /\ StartLookup(r, BreakerAlert(r))
  \/ \E r \in RunIds : StartDecide(r)
  \/ \E r \in RunIds : RunCreate(r, TRUE)
  \/ \E r \in RunIds : \E ok \in BreakerOutcomes(r), res \in TriageResults :
       StepFinish(r, ok, res, TimeoutMessage)
  \/ \E r \in RunIds : SaveRun(r, TRUE)
  \/ \E r \in RunIds : SaveTraces(r, Len(traces[r]))
  \/ TriageTick

SpecBreaker == Init /\ [][NextBreaker]_vars

\* Inputs of the stream specification: one run of alert a1, whose agents and
\* store writes may fail, and clients that subscribe to it and leave at any time.
NextStream ==
  \/ StartLookup(1, "a1")
  \/ StartDecide(1)
  \/ \E ok \in BOOLEAN : RunCreate(1, ok)
  \/ \E ok \in BOOLEAN, res \in TriageResults : StepFinish(1, ok, res, TimeoutMessage)
  \/ \E ok \in BOOLEAN : SaveRun(1, ok)
  \/ \E k \in 0..Len(buildPlan) : SaveTraces(1, k)
  \/ \E s \in StreamIds : Subscribe(s, 1)
  \/ \E s \in StreamIds : StreamClose(s)
  \/ \E s \in StreamIds : StreamTimer(s)

SpecStream == Init /\ [][NextStream]_vars

\* Inputs of the trace-detail specification: one run of alert a1 whose agents
\* return results with and without PII in their text, or throw errors with
\* and without PII in their message.
DetailResults ==
  {[AgentResult(60, "open_dispute") EXCEPT !.text = t] : t \in {<<"a">>, <<"a", " ">> \o Chars(16, "5")}}

DetailMessages == {TimeoutMessage, <<"a", " ", "a", "@", "a", ".", "a", "a">>}

NextDetail ==
  \/ StartLookup(1, "a1")
  \/ StartDecide(1)
  \/ \E ok \in BOOLEAN : RunCreate(1, ok)
  \/ \E ok \in BOOLEAN, res \in DetailResults, msg \in DetailMessages : StepFinish(1, ok, res, msg)
  \/ \E ok \in BOOLEAN : SaveRun(1, ok)
  \/ \E k \in 0..Len(buildPlan) : SaveTraces(1, k)

SpecDetail == Init /\ [][NextDetail]_vars

\* Inputs of the decision specification: one run of alert a1 whose fraud
\* analysis yields any of the scores below, for customers of any risk tier,
\* and whose steps and store writes may fail.
Scores == {0, 20, 60, 100}

\* What the agent of the step run r waits for can return.
DecisionResults(r) ==
  LET step == IF runPc[r] = "await" THEN buildPlan[runI[r] + 1] ELSE ""
  IN CASE step = "riskSignals" -> {AgentResult(sc, "null") : sc \in Scores}
       [] step = "decide" ->
            {[AgentResult(0, "null") EXCEPT !.riskTier = tier] : tier \in {"low", "high"}}
       [] OTHER -> {AgentResult(0, "null")}

NextDecision ==
  \/ StartLookup(1, "a1")
  \/ StartDecide(1)
  \/ \E ok \in BOOLEAN : RunCreate(1, ok)
  \/ \E ok \in BOOLEAN, res \in DecisionResults(1) : StepFinish(1, ok, res, TimeoutMessage)
  \/ \E ok \in BOOLEAN : SaveRun(1, ok)
  \/ \E k \in 0..Len(buildPlan) : SaveTraces(1, k)

SpecDecision == Init /\ [][NextDecision]_vars

\* ------------------------------------------------------------------------
\* Step deadline (executeWithTimeout) and calls that settle late or never
\* ------------------------------------------------------------------------
\* The steps whose call executeStep hands to executeWithTimeout.
hasDeadline(step) == step \in {"riskSignals", "kbLookup", "decide", "proposeAction"}

\* The message of an agent's own error.
AgentError == <<"a", " ", "a">>

AwaitedStep(r) == buildPlan[runI[r] + 1]

\* The underlying call of the awaited step is one that never settles.
CallHangs(r) ==
  /\ runPc[r] = "await"
  /\ <<r, runI[r]>> \notin hung
  /\ failuresInjected < MaxFailures
  /\ hung' = hung \cup {<<r, runI[r]>>}
  /\ UNCHANGED <<now, triageVars, rateVars, actionVars, txnTable, pageFrom, pageLimit, cursor,
                 pageItems, hasNextPage, pages, redactInput, redactOutputs, late,
                 policyInput, policyChecks>>

\* The call of the awaited step settles before any timer: it resolves with
\* res or rejects with its own error.
CallSettles(r, ok, res) ==
  /\ runPc[r] = "await"
  /\ <<r, runI[r]>> \notin hung
  /\ StepFinish(r, ok, res, AgentError)

\* The timer of executeWithTimeout wins the race: the step fails with the
\* timeout message.
StepTimeout(r) ==
  /\ runPc[r] = "await"
  /\ hasDeadline(AwaitedStep(r))
  /\ StepFinish(r, FALSE, NoResult, TimeoutMessage)

race_lastWins(promise, settlement) == settlement

\* Promise.race: the promise is settled by the first of its inputs that
\* settles; what settles later leaves it as it is.
race(promise, settlement) == IF promise = "pending" THEN settlement ELSE promise

\* The steps of run r that have failed with the timeout of executeWithTimeout.
TimedOut(r) ==
  {i \in 0..(Len(buildPlan) - 1) :
     /\ hasDeadline(buildPlan[i + 1])
     /\ \E j \in 1..Len(traces[r]) :
          /\ traces[r][j].seq = i
          /\ ~traces[r][j].ok
          /\ traces[r][j].detail = [error |-> TimeoutMessage]}

\* The agent call of step i, which has timed out, resolves with res.  The
\* race was settled by the timer, so the await of executeStep, which has
\* thrown, is not resumed; were the race settled anew, the rest of the try
\* block would run.
LateResult(r, i, res) ==
  /\ i \in TimedOut(r)
  /\ <<r, i>> \notin hung
  /\ <<r, i>> \notin late
  /\ late' = late \cup {<<r, i>>}
  /\ LET step == buildPlan[i + 1]
         result == stepResult(step, context[r], res)
     IN IF race("rejected", "resolved") = "resolved"
        THEN /\ traces' = [traces EXCEPT ![r] =
                             Append(@, Trace(i, step, TRUE, traceDetail(TRUE, result, <<>>)))]
             /\ context' = [context EXCEPT ![r][step] = result]
             /\ circuitBreakers' = resetCircuitBreaker(circuitBreakers, step)
             /\ events' = [events EXCEPT ![r] = Append(@, <<"tool_update", step, TRUE>>)]
        ELSE UNCHANGED <<traces, context, circuitBreakers, events>>
  /\ UNCHANGED <<now, rateVars, actionVars, activeRuns, dbRun, dbTraces, runPc, runAlert, runSeen,
                 runI, fallbackUsed, response, observed, failuresInjected, sse,
                 txnTable, pageFrom, pageLimit, cursor, pageItems, hasNextPage, pages,
                 redactInput, redactOutputs, hung, policyInput, policyChecks>>

\* Time passes while the call of a step is awaited.
AwaitTick(r) ==
  /\ runPc[r] = "await"
  /\ TriageTick

\* Inputs of the deadline specification: one run of alert a1, constructed at
\* time 0 (this.startTime = 0: the clock moves only while a step of the run
\* is awaited); each call may resolve, reject, run into its timeout or never
\* settle; the data store answers every write, with success or with an error.
StepProgress ==
  \/ StartDecide(1)
  \/ \E ok \in BOOLEAN : RunCreate(1, ok)
  \/ \E ok \in BOOLEAN, res \in TriageResults : CallSettles(1, ok, res)
  \/ StepTimeout(1)
  \/ \E ok \in BOOLEAN : SaveRun(1, ok)
  \/ \E k \in 0..Len(buildPlan) : SaveTraces(1, k)

NextDeadline ==
  \/ StartLookup(1, "a1")
  \/ CallHangs(1)
  \/ AwaitTick(1)
  \/ \E i \in 0..(Len(buildPlan) - 1), res \in TriageResults : LateResult(1, i, res)
  \/ StepProgress

\* Every answer of the data store, every settling call and every timer that
\* is pending is eventually handled by the event loop.
SpecDeadline == Init /\ [][NextDeadline]_vars /\ WF_vars(StepProgress)

\* ------------------------------------------------------------------------
\* rateLimitMiddleware
\* ------------------------------------------------------------------------
CatchNext_reject(q, c) ==
  /\ rlPc' = [rlPc EXCEPT ![q] = "done"]
  /\ rlReply' = [rlReply EXCEPT ![q] = [status |-> "429", retryAfter |-> 0]]
  /\ UNCHANGED passedAt

\* The catch block: the error is logged and the request of client c is
\* passed on.
CatchNext(q, c) ==
  /\ rlPc' = [rlPc EXCEPT ![q] = "done"]
  /\ rlReply' = [rlReply EXCEPT ![q] = [status |-> "next", retryAfter |-> 0]]
  /\ passedAt' = [passedAt EXCEPT ![c] = Append(@, now)]

\* A request of client c arrives and redis.get is answered (ok) or throws.
RateGet(q, c, ok) ==
  /\ rlPc[q] \in {"idle", "done"}
  /\ rateRequests < MaxRateRequests
  /\ rateRequests' = rateRequests + 1
  /\ rlClient' = [rlClient EXCEPT ![q] = c]
  /\ rlInfo' = [rlInfo EXCEPT ![q] = NoInfo]
  /\ rlOrdinal' = [rlOrdinal EXCEPT ![q] = 0]
  /\ IF ok
     THEN /\ rlCurrent' = [rlCurrent EXCEPT ![q] = redisGet(rateKey[c], now)]
          /\ rlPc' = [rlPc EXCEPT ![q] = "got"]
          /\ rlReply' = [rlReply EXCEPT ![q] = NoReply]
          /\ UNCHANGED passedAt
     ELSE \* catch: fail open
          /\ rlCurrent' = [rlCurrent EXCEPT ![q] = NoInfo]
          /\ CatchNext(q, c)
  /\ UNCHANGED <<now, triageVars, actionVars, utilVars, windowMs, maxRequests, rateKey, windowSeen>>

\* Lines 20-32: the window update, then redis.setex is answered (ok) or throws.
RateSet(q, ok) ==
  /\ rlPc[q] = "got"
  /\ LET c == rlClient[q]
         info == nextRateLimitInfo(rlCurrent[q], now, windowMs)
         win == ObserveRequest(windowSeen[c], now, windowMs)
     IN /\ rlInfo' = [rlInfo EXCEPT ![q] = info]
        /\ windowSeen' = [windowSeen EXCEPT ![c] = win]
        /\ rlOrdinal' = [rlOrdinal EXCEPT ![q] = win.seen]
        /\ IF ok
           THEN /\ rateKey' = [rateKey EXCEPT ![c] = redisSetex(info, now, windowMs)]
                /\ rlPc' = [rlPc EXCEPT ![q] = "set"]
                /\ UNCHANGED <<rlReply, passedAt>>
           ELSE \* catch: fail open
                /\ CatchNext(q, c)
                /\ UNCHANGED rateKey
  /\ UNCHANGED <<now, triageVars, actionVars, utilVars, windowMs, maxRequests, rlClient, rlCurrent,
                 rateRequests>>

\* Lines 33-51: the headers, then 429 with Retry-After or next().
RateReply(q) ==
  /\ rlPc[q] = "set"
  /\ rlPc' = [rlPc EXCEPT ![q] = "done"]
  /\ IF overLimit(rlInfo[q], maxRequests)
     THEN /\ rlReply' = [rlReply EXCEPT ![q] = [status |-> "429",
                                               retryAfter |-> retryAfterOf(rlInfo[q], now)]]
          /\ UNCHANGED passedAt
     ELSE /\ rlReply' = [rlReply EXCEPT ![q] = [status |-> "next", retryAfter |-> 0]]
          /\ passedAt' = [passedAt EXCEPT ![rlClient[q]] = Append(@, now)]
  /\ UNCHANGED <<now, triageVars, actionVars, utilVars, windowMs, maxRequests, rateKey, rlClient,
                 rlCurrent, rlInfo, rlOrdinal, windowSeen, rateRequests>>

RateTickMs == 500

RateTick ==
  /\ now < MaxRateTicks * RateTickMs
  /\ now' = now + RateTickMs
  /\ UNCHANGED <<triageVars, rateVars, utilVars, actionVars>>

\* Configurations of the rate limiter specifications.
WindowChoices == {1000, 1500}
MaxRequestChoices == {1, 2}

InitRate ==
  /\ now = 0
  /\ TriageInit
  /\ \E w \in WindowChoices, n \in MaxRequestChoices : RateInit(w, n)
  /\ ActionInit("ACTIVE")
  /\ UtilInit

RateQuiet == \A q \in RateSlots : rlPc[q] \in {"idle", "done"}

\* Requests handled one after another, the store available.
NextRateSeq ==
  \/ \E c \in Clients : RateQuiet /\ RateGet(1, c, TRUE)
  \/ \E q \in RateSlots : RateSet(q, TRUE)
  \/ \E q \in RateSlots : RateReply(q)
  \/ RateTick

SpecRateSeq == InitRate /\ [][NextRateSeq]_vars

\* Requests of the clients handled concurrently, all inside one window (the
\* clock stands still), the store available.
NextRateConc ==
  \/ \E q \in RateSlots, c \in Clients : RateGet(q, c, TRUE)
  \/ \E q \in RateSlots : RateSet(q, TRUE)
  \/ \E q \in RateSlots : RateReply(q)

SpecRateConc == InitRate /\ [][NextRateConc]_vars

\* Requests of one client handled one after another over time, with a store
\* whose reads and writes may fail.
NextRateFaulty ==
  \/ \E ok \in BOOLEAN : RateQuiet /\ RateGet(1, "c1", ok)
  \/ \E q \in RateSlots, ok \in BOOLEAN : RateSet(q, ok)
  \/ \E q \in RateSlots : RateReply(q)
  \/ RateTick

SpecRateFaulty == InitRate /\ [][NextRateFaulty]_vars

\* ------------------------------------------------------------------------
\* Action routes (routes/action)
\* ------------------------------------------------------------------------
\* res.status(code).json(body): the handler of slot q ends.  didApply tells
\* the observer that the request was carried out and answered with success.
Respond(q, code, body, didApply) ==
  /\ aResp' = [aResp EXCEPT ![q] = [code |-> code, body |-> body, to |-> aReq[q].requestId,
                                    named |-> aReq[q].cardId,
                                    at |-> aPc[q]]]
  /\ aPc' = [aPc EXCEPT ![q] = "done"]
  /\ aReq' = [aReq EXCEPT ![q] = NoReq]
  /\ aResult' = [aResult EXCEPT ![q] = NoBody]
  /\ applied' = IF didApply /\ aReq[q].key # "" /\ ~IsReplay(q)
                THEN [applied EXCEPT ![<<aReq[q].op, aReq[q].key>>] =
                        [done |-> TRUE, body |-> body, at |-> now]]
                ELSE applied
  /\ UNCHANGED verified

\* catch (error): 500
Fail(q) == Respond(q, 500, ErrorBody(FailureMessage(aReq[q].op)), FALSE)

\* A request arrives at one of the four routes; requestId = uuidv4().
Arrive(q, op, cardId, otp, alertId, txnId, key, role) ==
  /\ aPc[q] \in {"idle", "done"}
  /\ actRequests < MaxActRequests
  /\ actRequests' = actRequests + 1
  /\ aReq' = [aReq EXCEPT ![q] = [op |-> op, cardId |-> cardId, otp |-> otp, alertId |-> alertId,
                                  txnId |-> txnId, key |-> key, role |-> role,
                                  requestId |-> actRequests + 1]]
  /\ aPc' = [aPc EXCEPT ![q] = "arrived"]
  /\ aResp' = [aResp EXCEPT ![q] = NoResp]
  /\ aResult' = [aResult EXCEPT ![q] = NoBody]
  /\ UNCHANGED <<now, triageVars, rateVars, utilVars, cardStatus, alertStatus, cases, caseEvents,
                 idempotency, applied, verified>>

\* freeze-card and open-dispute: the idempotency check (redis.get).
IdemCheck(q, ok) ==
  /\ aPc[q] = "arrived"
  /\ aReq[q].op \in {"freeze", "dispute"}
  /\ LET existingResult == IF aReq[q].key = "" THEN NoBody
                           ELSE idemGet(idempotency, aReq[q].op, aReq[q].key, now)
     IN IF ~ok /\ aReq[q].key # ""
        THEN Fail(q)
        ELSE IF existingResult # NoBody
        THEN Respond(q, 200, existingResult, FALSE)
        ELSE /\ aPc' = [aPc EXCEPT ![q] = "lookup"]
             /\ UNCHANGED <<aReq, aResult, aResp, applied, verified>>
  /\ UNCHANGED <<now, triageVars, rateVars, utilVars, cardStatus, alertStatus, cases, caseEvents,
                 idempotency, actRequests>>

\* freeze-card, lines 378-434: card lookup, FROZEN check, OTP gate.
FreezeLookup(q, ok) ==
  /\ aPc[q] = "lookup"
  /\ aReq[q].op = "freeze"
  /\ LET req == aReq[q]
         alreadyFrozen == [NoBody EXCEPT !.status = "FROZEN", !.requestId = req.requestId,
                                         !.message = "Card is already frozen", !.timestamp = now]
         pendingOtp == [NoBody EXCEPT !.status = "PENDING_OTP", !.requestId = req.requestId,
                                      !.message = "OTP verification required", !.timestamp = now]
     IN IF ~ok
        THEN /\ Fail(q)
             /\ UNCHANGED idempotency
        ELSE IF req.cardId \notin CardIds
        THEN /\ Respond(q, 404, ErrorBody("Card not found"), FALSE)
             /\ UNCHANGED idempotency
        ELSE IF cardStatus[req.cardId] = "FROZEN"
        THEN /\ Respond(q, 200, alreadyFrozen, FALSE)
             /\ idempotency' = IF req.key # ""
                               THEN idemSetex(idempotency, "freeze", req.key, alreadyFrozen, now)
                               ELSE idempotency
        ELSE IF req.otp = ""
        THEN /\ Respond(q, 200, pendingOtp, FALSE)
             /\ UNCHANGED idempotency
        ELSE IF ~verifyOTP(req.cardId, req.otp)
        THEN /\ Respond(q, 400, ErrorBody("Invalid OTP"), FALSE)
             /\ UNCHANGED idempotency
        ELSE /\ aPc' = [aPc EXCEPT ![q] = "txn"]
             /\ verified' = verified \cup {<<req.cardId, req.otp>>}
             /\ UNCHANGED <<aReq, aResult, aResp, idempotency, applied>>
  /\ UNCHANGED <<now, triageVars, rateVars, utilVars, cardStatus, alertStatus, cases, caseEvents,
                 actRequests>>

\* The writes of a handler in the order it issues them.
WriteOrder == <<"card", "case", "event", "alert">>

\* The writes issued before the one that throws (all of them when none does).
WritesBefore(failAt) ==
  {WriteOrder[j] : j \in {j \in 1..Len(WriteOrder) :
      \A h \in 1..j : WriteOrder[h] # failAt}}

prismaTransaction_noRollback(issued, failed) == issued

\* prisma.$transaction(async (tx) => ...): the writes that are in the store
\* afterwards; a throw inside the callback rolls all of them back.
prismaTransaction(issued, failed) == IF failed THEN {} ELSE issued

\* freeze-card, lines 436-476: prisma.$transaction.  A write throws when the
\* store fails at it (failAt) or when tx.alert.update finds no alert.
FreezeTxn(q, failAt) ==
  /\ aPc[q] = "txn"
  /\ aReq[q].op = "freeze"
  /\ LET req == aReq[q]
         thrownAt == IF failAt # "none" THEN failAt
                     ELSE IF req.alertId \notin ActAlertIds \cup {""} THEN "alert" ELSE "none"
         written == prismaTransaction(WritesBefore(thrownAt), thrownAt # "none")
         result == [NoBody EXCEPT !.status = "FROZEN", !.requestId = req.requestId,
                                  !.cardId = req.cardId,
                                  !.message = "Card has been successfully frozen",
                                  !.timestamp = now]
     IN /\ cardStatus' = IF "card" \in written
                         THEN [cardStatus EXCEPT ![req.cardId] = "FROZEN"] ELSE cardStatus
        /\ cases' = IF "case" \in written
                    THEN Append(cases, Case(req.txnId, "CARD_FREEZE", "CLOSED", "FRAUD_PREVENTION"))
                    ELSE cases
        /\ caseEvents' = IF "event" \in written
                         THEN Append(caseEvents, CaseEvent(Len(cases) + 1, "CARD_FROZEN"))
                         ELSE caseEvents
        /\ alertStatus' = IF "alert" \in written /\ req.alertId \in ActAlertIds
                          THEN [alertStatus EXCEPT ![req.alertId] = "Resolved"] ELSE alertStatus
        /\ IF thrownAt # "none"
           THEN Fail(q)
           ELSE IF req.key # ""
           THEN /\ aPc' = [aPc EXCEPT ![q] = "cache"]
                /\ aResult' = [aResult EXCEPT ![q] = result]
                /\ UNCHANGED <<aReq, aResp, applied, verified>>
           ELSE Respond(q, 200, result, TRUE)
  /\ UNCHANGED <<now, triageVars, rateVars, utilVars, idempotency, actRequests>>

\* freeze-card lines 485-501 and open-dispute lines 679-699: the result is
\* cached under the Idempotency-Key and sent.
CacheResult(q, ok) ==
  /\ aPc[q] = "cache"
  /\ IF ok
     THEN /\ idempotency' = idemSetex(idempotency, aReq[q].op, aReq[q].key, aResult[q], now)
          /\ Respond(q, 200, aResult[q], TRUE)
     ELSE /\ Fail(q)
          /\ UNCHANGED idempotency
  /\ UNCHANGED <<now, triageVars, rateVars, utilVars, cardStatus, alertStatus, cases, caseEvents,
                 actRequests>>

\* open-dispute, lines 598-629: transaction lookup and existing-dispute check.
DisputeLookup(q, ok) ==
  /\ aPc[q] = "lookup"
  /\ aReq[q].op = "dispute"
  /\ LET req == aReq[q]
         existing == existingDispute(cases, req.txnId)
         already == [NoBody EXCEPT !.status = "OPEN", !.requestId = req.requestId,
                                   !.caseId = existing,
                                   !.message = "Dispute already exists for this transaction",
                                   !.timestamp = now]
     IN IF ~ok
        THEN /\ Fail(q)
             /\ UNCHANGED idempotency
        ELSE IF req.txnId \notin TxnIds
        THEN /\ Respond(q, 404, ErrorBody("Transaction not found"), FALSE)
             /\ UNCHANGED idempotency
        ELSE IF existing # 0
        THEN /\ Respond(q, 200, already, FALSE)
             /\ idempotency' = IF req.key # ""
                               THEN idemSetex(idempotency, "dispute", req.key, already, now)
                               ELSE idempotency
        ELSE /\ aPc' = [aPc EXCEPT ![q] = "txn"]
             /\ UNCHANGED <<aReq, aResult, aResp, idempotency, applied, verified>>
  /\ UNCHANGED <<now, triageVars, rateVars, utilVars, cardStatus, alertStatus, cases, caseEvents,
                 actRequests>>

\* open-dispute, lines 631-666: prisma.$transaction.
DisputeTxn(q, failAt) ==
  /\ aPc[q] = "txn"
  /\ aReq[q].op = "dispute"
  /\ LET req == aReq[q]
         alert == AlertOfTxn(req.txnId)
         written == prismaTransaction(WritesBefore(failAt), failAt # "none")
         result == [NoBody EXCEPT !.status = "OPEN", !.requestId = req.requestId,
                                  !.caseId = Len(cases) + 1,
                                  !.message = "Dispute has been successfully created",
                                  !.timestamp = now]
     IN /\ cases' = IF "case" \in written
                    THEN Append(cases, Case(req.txnId, "DISPUTE", "OPEN", "reason")) ELSE cases
        /\ caseEvents' = IF "event" \in written
                         THEN Append(caseEvents, CaseEvent(Len(cases) + 1, "DISPUTE_OPENED"))
                         ELSE caseEvents
        /\ alertStatus' = IF "alert" \in written /\ alert # ""
                          THEN [alertStatus EXCEPT ![alert] = "Investigating(Opened the Dispute)"]
                          ELSE alertStatus
        /\ IF failAt # "none"
           THEN Fail(q)
           ELSE IF req.key # ""
           THEN /\ aPc' = [aPc EXCEPT ![q] = "cache"]
                /\ aResult' = [aResult EXCEPT ![q] = result]
                /\ UNCHANGED <<aReq, aResp, applied, verified>>
           ELSE Respond(q, 200, result, TRUE)
  /\ UNCHANGED <<now, triageVars, rateVars, utilVars, cardStatus, idempotency, actRequests>>

\* The three writes of contact-customer and mark-false-positive, one after the
\* other and outside any transaction; failAt names the write that throws.
PlainWrites(q, type, status, reasonCode, action, newAlertStatus, body, failAt, swallowAlertError) ==
  LET req == aReq[q]
      thrownAt == IF failAt # "none" THEN failAt
                  ELSE IF req.alertId \notin ActAlertIds THEN "alert" ELSE "none"
      written == WritesBefore(thrownAt)
  IN /\ cases' = IF "case" \in written
                 THEN Append(cases, Case(req.txnId, type, status, reasonCode)) ELSE cases
     /\ caseEvents' = IF "event" \in written
                      THEN Append(caseEvents, CaseEvent(Len(cases) + 1, action)) ELSE caseEvents
     /\ alertStatus' = IF "alert" \in written
                       THEN [alertStatus EXCEPT ![req.alertId] = newAlertStatus] ELSE alertStatus
     /\ IF thrownAt = "none" \/ (thrownAt = "alert" /\ swallowAlertError)
        THEN Respond(q, 200, body, TRUE)
        ELSE Fail(q)

\* contact-customer, lines 290-346 (the alert update ignores its error).
ContactCustomer(q, failAt) ==
  /\ aPc[q] = "arrived"
  /\ aReq[q].op = "contact"
  /\ IF aReq[q].alertId = ""
     THEN /\ Respond(q, 400, ErrorBody("alertId and customerId are required"), FALSE)
          /\ UNCHANGED <<cases, caseEvents, alertStatus>>
     ELSE PlainWrites(q, "CONTACT_CUSTOMER", "CLOSED", "CUSTOMER_CONTACTED", "CUSTOMER_CONTACTED",
                      "CONTACTED",
                      [NoBody EXCEPT !.requestId = aReq[q].requestId, !.caseId = Len(cases) + 1,
                                     !.message = "Customer contact initiated and logged"],
                      failAt, TRUE)
  /\ UNCHANGED <<now, triageVars, rateVars, utilVars, cardStatus, idempotency, actRequests>>

\* mark-false-positive, lines 527-567.
MarkFalsePositive(q, failAt) ==
  /\ aPc[q] = "arrived"
  /\ aReq[q].op = "false_positive"
  /\ IF aReq[q].alertId = ""
     THEN /\ Respond(q, 400, ErrorBody("alertId and customerId are required"), FALSE)
          /\ UNCHANGED <<cases, caseEvents, alertStatus>>
     ELSE IF aReq[q].alertId \notin ActAlertIds
     THEN /\ Respond(q, 404, ErrorBody("Alert not found"), FALSE)
          /\ UNCHANGED <<cases, caseEvents, alertStatus>>
     ELSE PlainWrites(q, "FALSE_POSITIVE", "CLOSED_FALSE_POSITIVE", "AI_FALSE_POSITIVE",
                      "CLOSED_FALSE_POSITIVE", "CLOSED_FALSE_POSITIVE",
                      [NoBody EXCEPT !.status = "CLOSED_FALSE_POSITIVE", !.caseId = Len(cases) + 1,
                                     !.message = "Alert closed as false positive."],
                      failAt, FALSE)
  /\ UNCHANGED <<now, triageVars, rateVars, utilVars, cardStatus, idempotency, actRequests>>

ActionTickMs == 2400000

ActionTick ==
  /\ now < MaxActTicks * ActionTickMs
  /\ now' = now + ActionTickMs
  /\ UNCHANGED <<triageVars, rateVars, utilVars, actionVars>>

InitAction ==
  /\ now = 0
  /\ TriageInit
  /\ RateInit(DefaultWindowMs, DefaultMaxRequests)
  /\ ActionInit("ACTIVE")
  /\ UtilInit

ActQuiet == \A q \in ActSlots : aPc[q] \in {"idle", "done"}

\* Requests as the action specifications send them.
OtpChoices == {"", StoredOTP, "000000"}
KeyChoices == {"", "k1"}
FailPoints == {"none", "card", "case", "event", "alert"}

ArriveAny(q) ==
  \/ \E cardId \in CardIds \cup {MissingCard}, otp \in OtpChoices, alertId \in {"", "a1", "a0"},
        key \in KeyChoices, role \in {"agent", "lead"} :
        Arrive(q, "freeze", cardId, otp, alertId, "t1", key, role)
  \/ \E txnId \in TxnIds \cup {MissingTxn}, key \in KeyChoices :
        Arrive(q, "dispute", "", "", "", txnId, key, "agent")
  \/ \E op \in {"contact", "false_positive"}, alertId \in {"", "a1", "a0"}, key \in KeyChoices :
        Arrive(q, op, "", "", alertId, "t1", key, "agent")

\* Requests handled one after another, the store available.
NextActionSeq ==
  \/ ActQuiet /\ ArriveAny(1)
  \/ \E q \in ActSlots : IdemCheck(q, TRUE)
  \/ \E q \in ActSlots : FreezeLookup(q, TRUE)
  \/ \E q \in ActSlots : FreezeTxn(q, "none")
  \/ \E q \in ActSlots : CacheResult(q, TRUE)
  \/ \E q \in ActSlots : DisputeLookup(q, TRUE)
  \/ \E q \in ActSlots : DisputeTxn(q, "none")
  \/ \E q \in ActSlots : ContactCustomer(q, "none")
  \/ \E q \in ActSlots : MarkFalsePositive(q, "none")
  \/ ActionTick

SpecActionSeq == InitAction /\ [][NextActionSeq]_vars

\* Requests handled one after another, the stores failing at any point.
ArriveFaulty(q) ==
  \/ \E otp \in {"", StoredOTP}, alertId \in {"", "a1", "a0"}, key \in {"", "k1"} :
        Arrive(q, "freeze", "card1", otp, alertId, "t1", key, "agent")
  \/ \E key \in {"", "k1"} : Arrive(q, "dispute", "", "", "", "t1", key, "agent")
  \/ \E op \in {"contact", "false_positive"}, alertId \in {"", "a1", "a0"} :
        Arrive(q, op, "", "", alertId, "t1", "", "agent")

NextActionFaulty ==
  \/ ActQuiet /\ ArriveFaulty(1)
  \/ \E q \in ActSlots, ok \in BOOLEAN : IdemCheck(q, ok)
  \/ \E q \in ActSlots, ok \in BOOLEAN : FreezeLookup(q, ok)
  \/ \E q \in ActSlots, failAt \in FailPoints : FreezeTxn(q, failAt)
  \/ \E q \in ActSlots, ok \in BOOLEAN : CacheResult(q, ok)
  \/ \E q \in ActSlots, ok \in BOOLEAN : DisputeLookup(q, ok)
  \/ \E q \in ActSlots, failAt \in FailPoints \ {"card"} : DisputeTxn(q, failAt)
  \/ \E q \in ActSlots, failAt \in FailPoints \ {"card"} : ContactCustomer(q, failAt)
  \/ \E q \in ActSlots, failAt \in FailPoints \ {"card"} : MarkFalsePositive(q, failAt)
  \/ ActionTick

SpecActionFaulty == InitAction /\ [][NextActionFaulty]_vars

\* Freeze requests with the valid OTP for the same card, handled concurrently,
\* the stores available.
ArriveFreeze(q) ==
  \E alertId \in {"", "a1"}, key \in KeyChoices :
    Arrive(q, "freeze", "card1", StoredOTP, alertId, "t1", key, "agent")

ArriveDispute(q) ==
  \E key \in KeyChoices : Arrive(q, "dispute", "", "", "", "t1", key, "agent")

NextActionConc ==
  \/ \E q \in ActSlots : ArriveFreeze(q)
  \/ \E q \in ActSlots : ArriveDispute(q)
  \/ \E q \in ActSlots : DisputeLookup(q, TRUE)
  \/ \E q \in ActSlots : DisputeTxn(q, "none")
  \/ \E q \in ActSlots : IdemCheck(q, TRUE)
  \/ \E q \in ActSlots : FreezeLookup(q, TRUE)
  \/ \E q \in ActSlots : FreezeTxn(q, "none")
  \/ \E q \in ActSlots : CacheResult(q, TRUE)

SpecActionConc == InitAction /\ [][NextActionConc]_vars

\* The action routes for a card that has expired, requests handled one after
\* another, the store available.
InitExpired ==
  /\ now = 0
  /\ TriageInit
  /\ RateInit(DefaultWindowMs, DefaultMaxRequests)
  /\ ActionInit("EXPIRED")
  /\ UtilInit

SpecExpired == InitExpired /\ [][NextActionSeq]_vars

\* ------------------------------------------------------------------------
\* Alert status route (routes/alerts, PUT /:id/status)
\* ------------------------------------------------------------------------
\* status.toUpperCase() for the statuses a client sends
toUpperCase(status) ==
  CASE status = "open" -> "OPEN"
    [] status = "investigating" -> "INVESTIGATING"
    [] status = "resolved" -> "RESOLVED"
    [] status = "contacted" -> "CONTACTED"
    [] OTHER -> status

StatusChoices == {"open", "investigating", "RESOLVED", "contacted"}

\* The whole handler: 400 for a status outside the three accepted ones, else
\* prisma.alert.update, which throws for an alert that does not exist (500).
PutAlertStatus(id, status) ==
  /\ alertStatus' =
       IF toUpperCase(status) \in {"OPEN", "INVESTIGATING", "RESOLVED"} /\ id \in ActAlertIds
       THEN [alertStatus EXCEPT ![id] = toUpperCase(status)]
       ELSE alertStatus
  /\ UNCHANGED <<now, triageVars, rateVars, utilVars, cardStatus, cases, caseEvents, idempotency,
                 aPc, aReq, aResult, aResp, actRequests, applied, verified>>

\* The action routes and the status route, requests handled one after
\* another, the store available.
NextAlert ==
  \/ NextActionSeq
  \/ \E id \in ActAlertIds \cup {MissingAlert}, status \in StatusChoices :
       ActQuiet /\ PutAlertStatus(id, status)

SpecAlert == InitAction /\ [][NextAlert]_vars

\* ------------------------------------------------------------------------
\* Customer transactions route (GET /:id/transactions), keyset pagination
\* ------------------------------------------------------------------------
Customers == {"c1", "c2"}
PageCustomer == "c1"

\* cursorFilters: ts < cursorTs, or ts = cursorTs and id < cursorId; the
\* cursor is "id|ts" and is split at the bar.
cursorFilters_tsOnly(cur, id, ts) == IF cur = <<>> THEN TRUE ELSE ts < cur[2]

cursorFilters(cur, id, ts) ==
  IF cur = <<>> THEN TRUE
  ELSE LET cursorId == cur[1]
           cursorTs == cur[2]
       IN ts < cursorTs \/ (ts = cursorTs /\ id < cursorId)

\* whereClause: customerId, the date filter and the cursor filter.
whereClause(table, customerId, from, cur) ==
  {id \in DOMAIN table :
     /\ table[id].customerId = customerId
     /\ (from = Null \/ table[id].ts >= from)
     /\ cursorFilters(cur, id, table[id].ts)}

\* orderBy ts desc, id desc
RECURSIVE orderBy(_, _)
orderBy(table, ids) ==
  IF ids = {} THEN <<>>
  ELSE LET first == CHOOSE x \in ids :
                      \A y \in ids : \/ table[x].ts > table[y].ts
                                     \/ (table[x].ts = table[y].ts /\ x >= y)
       IN <<first>> \o orderBy(table, ids \ {first})

\* prisma.transaction.findMany with take
findMany(table, customerId, from, cur, take) ==
  LET rows == orderBy(table, whereClause(table, customerId, from, cur))
  IN SubSeq(rows, 1, IF Len(rows) < take THEN Len(rows) ELSE take)

\* One request of the client, with the cursor the last response gave.
GetTransactions ==
  /\ hasNextPage
  /\ pages <= Len(txnTable)
  /\ LET transactions == findMany(txnTable, PageCustomer, pageFrom, cursor, pageLimit + 1)
         more == Len(transactions) > pageLimit
         items == IF more THEN SubSeq(transactions, 1, pageLimit) ELSE transactions
         lastItem == items[Len(items)]
     IN /\ hasNextPage' = more
        /\ cursor' = IF more THEN <<lastItem, txnTable[lastItem].ts>> ELSE <<>>
        /\ pageItems' = pageItems \o items
  /\ pages' = pages + 1
  /\ UNCHANGED <<now, triageVars, rateVars, actionVars, txnTable, pageFrom, pageLimit,
                 redactInput, redactOutputs, hung, late, policyInput, policyChecks>>

InitPage ==
  /\ now = 0
  /\ TriageInit
  /\ RateInit(DefaultWindowMs, DefaultMaxRequests)
  /\ ActionInit("ACTIVE")
  /\ txnTable \in [1..MaxTxns -> [ts : 1..MaxTs, customerId : Customers]]
  /\ pageFrom \in {Null, MaxTs}
  /\ pageLimit \in 1..MaxLimit
  /\ cursor = <<>>
  /\ pageItems = <<>>
  /\ hasNextPage = TRUE
  /\ pages = 0
  /\ redactInput = <<>>
  /\ redactOutputs = <<>>
  /\ hung = {}
  /\ late = {}
  /\ policyInput = <<>>
  /\ policyChecks = <<>>

NextPage == GetTransactions

SpecPage == InitPage /\ [][NextPage]_vars

\* ------------------------------------------------------------------------
\* Redactor (utils/redactor), applied repeatedly to one value
\* ------------------------------------------------------------------------
\* The texts handed to the redactor: up to MaxPieces of these pieces in a row.
Pieces ==
  {<<"a">>, <<" ">>, <<"@", "a", ".", "a", "a">>, Chars(10, "5"), Chars(16, "5")}

RECURSIVE TextsOf(_)
TextsOf(n) ==
  IF n = 0 THEN {<<>>}
  ELSE TextsOf(n - 1) \cup {t \o piece : t \in TextsOf(n - 1), piece \in Pieces}

\* redactor.redactObject is applied to the last result.
Redact ==
  /\ Len(redactOutputs) < MaxRedactions
  /\ redactOutputs' = Append(redactOutputs,
                             redactObject(IF redactOutputs = <<>> THEN redactInput
                                          ELSE redactOutputs[Len(redactOutputs)]))
  /\ UNCHANGED <<now, triageVars, rateVars, actionVars, txnTable, pageFrom, pageLimit, cursor,
                 pageItems, hasNextPage, pages, redactInput, hung, late,
                 policyInput, policyChecks>>

InitRedact ==
  /\ now = 0
  /\ TriageInit
  /\ RateInit(DefaultWindowMs, DefaultMaxRequests)
  /\ ActionInit("ACTIVE")
  /\ txnTable = <<>>
  /\ pageFrom = Null
  /\ pageLimit = 1
  /\ cursor = <<>>
  /\ pageItems = <<>>
  /\ hasNextPage = TRUE
  /\ pages = 0
  /\ \E t \in TextsOf(MaxPieces) : redactInput \in {[text |-> t], [nested |-> [text |-> t]]}
  /\ redactOutputs = <<>>
  /\ hung = {}
  /\ late = {}
  /\ policyInput = <<>>
  /\ policyChecks = <<>>

NextRedact == Redact

SpecRedact == InitRedact /\ [][NextRedact]_vars

\* ------------------------------------------------------------------------
\* ComplianceAgent.runPolicyChecks
\* ------------------------------------------------------------------------
PolicyActions == {"freeze_card", "open_dispute", "contact_customer", "false_positive"}

Check(name, passed) == [check |-> name, passed |-> passed]

checkRoleAuthorization(action, userRole) ==
  IF userRole = "lead" THEN Check("role_authorization", TRUE)
  ELSE Check("role_authorization",
             action \in {"contact_customer", "false_positive", "open_dispute"})

\* limits[action], in dollars; no limit for the two other actions
checkAmountLimits(action, amountDollars) ==
  Check("amount_limits",
        ~(\/ action = "freeze_card" /\ amountDollars > 1000
          \/ action = "open_dispute" /\ amountDollars > 5000))

\* kycLevel: "none" when the context has no customer profile
checkCustomerStatus(kycLevel) ==
  Check("customer_status", kycLevel \notin {"none", "restricted"})

checkRateLimits(action) == Check("rate_limits", TRUE)

\* day: 0 = Sunday .. 6 = Saturday
isBusinessHours(day, hour) == day >= 1 /\ day <= 5 /\ hour >= 9 /\ hour < 17

checkBusinessHours(action, day, hour) ==
  Check("business_hours", ~(action = "freeze_card" /\ ~isBusinessHours(day, hour)))

checkEscalationRequirements(riskScore, confidence, userRole) ==
  Check("escalation_requirements", ~(riskScore >= 80 /\ confidence < 60 /\ userRole = "agent"))

runPolicyChecks(in) ==
  <<checkRoleAuthorization(in.action, in.userRole),
    checkAmountLimits(in.action, in.amountDollars),
    checkCustomerStatus(in.kycLevel),
    checkRateLimits(in.action),
    checkBusinessHours(in.action, in.day, in.hour),
    checkEscalationRequirements(in.riskScore, in.confidence, in.userRole)>>

\* The calls of the policy specification: every action and role, at every
\* day of the week and at the hours around the limits of the business hours.
PolicyDays == 0..6
PolicyHours == {8, 9, 16, 17}
PolicyInputs ==
  [action : PolicyActions, userRole : {"agent", "lead"}, day : PolicyDays, hour : PolicyHours,
   amountDollars : {500, 2000}, kycLevel : {"basic", "restricted"}, riskScore : {60, 90},
   confidence : {50, 70}]

RunPolicyChecks ==
  /\ policyChecks = <<>>
  /\ policyChecks' = runPolicyChecks(policyInput)
  /\ UNCHANGED <<now, triageVars, rateVars, actionVars, txnTable, pageFrom, pageLimit, cursor,
                 pageItems, hasNextPage, pages, redactInput, redactOutputs, hung, late,
                 policyInput>>

InitPolicy ==
  /\ now = 0
  /\ TriageInit
  /\ RateInit(DefaultWindowMs, DefaultMaxRequests)
  /\ ActionInit("ACTIVE")
  /\ txnTable = <<>>
  /\ pageFrom = Null
  /\ pageLimit = 1
  /\ cursor = <<>>
  /\ pageItems = <<>>
  /\ hasNextPage = TRUE
  /\ pages = 0
  /\ redactInput = <<>>
  /\ redactOutputs = <<>>
  /\ hung = {}
  /\ late = {}
  /\ policyInput \in PolicyInputs
  /\ policyChecks = <<>>

NextPolicy == RunPolicyChecks

SpecPolicy == InitPolicy /\ [][NextPolicy]_vars

\* ------------------------------------------------------------------------
\* Properties of the triage engine
\* ------------------------------------------------------------------------
SeqsOf(ts) == [j \in 1..Len(ts) |-> ts[j].seq]
Contiguous(ts) == \A j \in 1..Len(ts) : ts[j].seq = j - 1

\* C1: in every run the seq values of the traces, in memory and as stored by
\* saveResults, are exactly 0..n-1 for its n traces, also when a step was
\* skipped because its circuit breaker was open.
C1_TraceSeqContiguous ==
  \A r \in RunIds : Contiguous(traces[r]) /\ Contiguous(dbTraces[r])

NonCriticalSteps == {s \in StepNames : ~isStepCritical(s)}

FailedWithFallback(r) ==
  \E j \in 1..Len(traces[r]) :
     /\ ~traces[r][j].ok
     /\ traces[r][j].step \in NonCriticalSteps
     /\ context[r][traces[r][j].step].kind = "fallback"

\* C2: a completed run has fallbackUsed = true if and only if some
\* non-critical step has a trace with ok = false and got its fallback
\* substituted.
C2_FallbackIffNonCriticalFailed ==
  \A r \in RunIds :
     runPc[r] = "done" =>
        /\ fallbackUsed[r] <=> FailedWithFallback(r)
        /\ dbRun[r].fallbackUsed <=> FailedWithFallback(r)

\* C3: an alert never has two TriageRun rows with endedAt = null, and a Start
\* Triage answered 200 never finds a run of its alert in flight.
C3_AtMostOneOpenRun ==
  \A a \in AlertIds :
     /\ Cardinality(OpenRunsOf(a)) <= 1
     /\ Cardinality({r \in activeRuns : runAlert[r] = a}) <= 1

\* The agent of step k is called in this step.
AgentCalled(k) ==
  \E r \in RunIds :
     /\ runPc'[r] = "await"
     /\ buildPlan[runI'[r] + 1] = k
     /\ runPc[r] # "await" \/ runI[r] # runI'[r]

\* C4: once three calls to step k have failed in a row, no call to k reaches
\* the agent until more than 30 s have passed since the last failure of k,
\* whatever the interleaving of the runs.
C4_OpenCircuitBlocksCalls ==
  [][\A k \in StepNames :
       (observed[k].tripped /\ now - observed[k].lastFailure <= CircuitResetMs)
          => ~AgentCalled(k)]_vars

\* ------------------------------------------------------------------------
\* Properties of the rate limiter
\* ------------------------------------------------------------------------
\* C5: for every client, any requests passed on within a time span of at
\* most W are at most N: if the i-th and the j-th passed request of a client
\* are no more than W apart, there are at most N passed requests from the
\* i-th to the j-th.
C5_AtMostNPerInterval ==
  \A c \in Clients : \A i \in 1..Len(passedAt[c]) : \A j \in i..Len(passedAt[c]) :
    passedAt[c][j] - passedAt[c][i] <= windowMs => j - i + 1 <= maxRequests

\* The answer to the request that the observer counted as the k-th of its window.
AnsweredAs(q, k) == rlPc[q] = "done" /\ rlOrdinal[q] = k

\* C6 as stated: handled one after another, the N-th request of a window is
\* passed on and the (N+1)-th gets 429 with retryAfter seconds no longer than
\* the window, retryAfter <= W/1000.
C6_BoundaryExact ==
  \A q \in RateSlots :
    /\ AnsweredAs(q, maxRequests) => rlReply[q].status = "next"
    /\ AnsweredAs(q, maxRequests + 1) =>
         rlReply[q].status = "429" /\ rlReply[q].retryAfter * 1000 <= windowMs

\* C6 amended: handled one after another, the N-th request of a window is
\* passed on and the (N+1)-th gets 429 with a retryAfter of at most
\* ceil(W/1000) seconds, the window rounded up to whole seconds.
C6_BoundaryCeil ==
  \A q \in RateSlots :
    /\ AnsweredAs(q, maxRequests) => rlReply[q].status = "next"
    /\ AnsweredAs(q, maxRequests + 1) =>
         /\ rlReply[q].status = "429"
         /\ rlReply[q].retryAfter <= CeilDiv(windowMs, 1000)

C6_Witness ==
  \E q \in RateSlots :
    /\ AnsweredAs(q, maxRequests + 1)
    /\ rlReply[q].status = "429"
    /\ rlReply[q].retryAfter = CeilDiv(windowMs, 1000)
    /\ Len(passedAt[rlClient[q]]) >= maxRequests

\* ------------------------------------------------------------------------
\* Properties of the action routes
\* ------------------------------------------------------------------------
\* The handler of slot q sends its response in this step.
Answers(q) == aPc[q] \notin {"idle", "done"} /\ aPc'[q] = "done"

StoredUnchanged == UNCHANGED <<cardStatus, alertStatus, cases, caseEvents>>

\* A freeze_card request with a valid OTP and an Idempotency-Key for an
\* existing card, its alertId absent or naming an existing alert.
ValidKeyedFreeze(q) ==
  /\ aReq[q].op = "freeze"
  /\ aReq[q].key # ""
  /\ aReq[q].otp = StoredOTP
  /\ aReq[q].cardId \in CardIds
  /\ aReq[q].alertId \in ActAlertIds \cup {""}

\* C7: requests handled one after another with the stores available.  A
\* freeze_card request with a valid OTP and Idempotency-Key K (card existing,
\* alertId absent or existing) is answered 200 with a FROZEN payload and,
\* when no result is cached under K, leaves the card FROZEN; a replay of a carried-out freeze under the same K
\* within the TTL is answered 200 with the payload of the first answer, and
\* while it is handled the card stays FROZEN and no Case or CaseEvent is added.
C7_FreezeReplayIdentical ==
  [][\A q \in ActSlots :
       /\ (ValidKeyedFreeze(q) /\ Answers(q)) =>
            /\ aResp'[q].code = 200
            /\ aResp'[q].body.status = "FROZEN"
            /\ idemGet(idempotency, "freeze", aReq[q].key, now) = NoBody =>
                 cardStatus'[aReq[q].cardId] = "FROZEN"
       /\ (aReq[q].op = "freeze" /\ IsReplay(q)) =>
            /\ \A c \in CardIds : cardStatus[c] = "FROZEN" => cardStatus'[c] = "FROZEN"
            /\ UNCHANGED <<cases, caseEvents>>
            /\ Answers(q) =>
                 /\ aResp'[q].code = 200
                 /\ aResp'[q].body = applied[<<"freeze", aReq[q].key>>].body]_vars

C7_Witness ==
  \E q \in ActSlots :
    /\ aPc[q] = "done"
    /\ aResp[q].code = 200
    /\ aResp[q].body.status = "FROZEN"
    /\ aResp[q].body.message = "Card has been successfully frozen"
    /\ aResp[q].to > aResp[q].body.requestId
    /\ \E k \in IdemKeys : applied[<<"freeze", k>>].done
                           /\ applied[<<"freeze", k>>].body = aResp[q].body
    /\ cardStatus["card1"] = "FROZEN"
    /\ Len(cases) = 1
    /\ Len(caseEvents) = 1

\* C8: for each of the four routes, while a replay (same Idempotency-Key,
\* within the TTL) of a carried-out request is handled, the card, the alert,
\* the cases and the case events do not change.
C8_ReplayLeavesStateUnchanged ==
  [][(\E q \in ActSlots : IsReplay(q)) => StoredUnchanged]_vars

\* The four writes of a freeze for request req are all in the store after
\* this step.
FreezeAllApplied(req) ==
  /\ cardStatus'[req.cardId] = "FROZEN"
  /\ cases' = Append(cases, Case(req.txnId, "CARD_FREEZE", "CLOSED", "FRAUD_PREVENTION"))
  /\ caseEvents' = Append(caseEvents, CaseEvent(Len(cases) + 1, "CARD_FROZEN"))
  /\ IF req.alertId = "" THEN UNCHANGED alertStatus
     ELSE /\ req.alertId \in ActAlertIds
          /\ alertStatus' = [alertStatus EXCEPT ![req.alertId] = "Resolved"]

\* C9: every step of a freeze_card handler either puts all of its writes in
\* the store (card FROZEN, CARD_FREEZE Case, CARD_FROZEN CaseEvent, alert
\* Resolved when an alertId is given) or none of them, and a handler that
\* answers with an error has left the card, the cases, the case events and the
\* alert as they were; the stores may fail at any write and the alertId may
\* name no alert.
C9_FreezeAllOrNothing ==
  [][\A q \in ActSlots : aReq[q].op = "freeze" =>
       /\ StoredUnchanged \/ FreezeAllApplied(aReq[q])
       /\ (Answers(q) /\ aResp'[q].code >= 400) => StoredUnchanged]_vars

C9_Witness ==
  \E q \in ActSlots :
    /\ aPc[q] = "done"
    /\ aResp[q].code = 500
    /\ aResp[q].at = "txn"
    /\ aResp[q].to = 1
    /\ cardStatus["card1"] = "ACTIVE"
    /\ cases = <<>>
    /\ caseEvents = <<>>
    /\ alertStatus["a1"] = "OPEN"

\* Card c becomes FROZEN in this step.
Freezes(c) == cardStatus[c] # "FROZEN" /\ cardStatus'[c] = "FROZEN"

\* A freeze_card call is in flight for card c with the valid OTP.
ValidOtpCallFor(c) ==
  \E q \in ActSlots : aReq[q].op = "freeze" /\ aReq[q].cardId = c /\ aReq[q].otp = StoredOTP

\* A freeze_card call in slot q without a valid OTP.
NoValidOtp(q) == aReq[q].op = "freeze" /\ aReq[q].otp # StoredOTP

RowsOfType(type) == {j \in 1..Len(cases) : cases[j].type = type}
EventsOfAction(action) == {j \in 1..Len(caseEvents) : caseEvents[j].action = action}

\* C11: with freeze_card requests carrying a valid OTP for the same ACTIVE
\* card handled concurrently, the freeze is applied once: there is never more
\* than one CARD_FREEZE Case nor more than one CARD_FROZEN event, and once the
\* card is FROZEN with no request in flight there is exactly one of each.
C11_ConcurrentFreezeOnce ==
  /\ Cardinality(RowsOfType("CARD_FREEZE")) <= 1
  /\ Cardinality(EventsOfAction("CARD_FROZEN")) <= 1
  /\ (ActQuiet /\ cardStatus["card1"] = "FROZEN") =>
       /\ Cardinality(RowsOfType("CARD_FREEZE")) = 1
       /\ Cardinality(EventsOfAction("CARD_FROZEN")) = 1

\* ------------------------------------------------------------------------
\* Properties of the event streams
\* ------------------------------------------------------------------------
CountOf(seq, type) == Cardinality({j \in 1..Len(seq) : seq[j][1] = type})
PositionsOf(seq, type) == {j \in 1..Len(seq) : seq[j][1] = type}
RunEnded(r) == runPc[r] \in {"done", "failed"}

\* C12: a run never emits more than one of decision_finalized and error, a
\* run that has ended has emitted exactly one of the two, and what a stream
\* of the run carries holds at most one completed event, which is preceded
\* by decision_finalized.
C12_OneFinalEvent ==
  /\ \A r \in RunIds :
       /\ CountOf(events[r], "decision_finalized") + CountOf(events[r], "error") <= 1
       /\ RunEnded(r) =>
            CountOf(events[r], "decision_finalized") + CountOf(events[r], "error") = 1
  /\ \A s \in StreamIds :
       /\ CountOf(sse[s].log, "completed") <= 1
       /\ \A j \in PositionsOf(sse[s].log, "completed") :
            \E i \in PositionsOf(sse[s].log, "decision_finalized") : i < j

\* A run has ended with decision_finalized and its stream carries completed.
C12_Witness ==
  \E s \in StreamIds :
    /\ sse[s].attached
    /\ RunEnded(sse[s].run)
    /\ CountOf(events[sse[s].run], "decision_finalized") = 1
    /\ CountOf(sse[s].log, "completed") = 1

OrchestratorEvents(log) == SelectSeq(log, LAMBDA e : e[1] # "completed")

\* C13: what a subscriber has received from the orchestrator is the run's
\* events from the first one emitted after its subscription on, in emission
\* order and without gaps; while its stream is open it has received all of
\* them.
C13_SubscriberGetsLaterEvents ==
  \A s \in StreamIds :
    sse[s].attached =>
      LET got == OrchestratorEvents(sse[s].log)
          evs == events[sse[s].run]
      IN /\ sse[s].from + Len(got) <= Len(evs)
         /\ got = SubSeq(evs, sse[s].from + 1, sse[s].from + Len(got))
         /\ sse[s].state = "open" => sse[s].from + Len(got) = Len(evs)

\* A client that subscribed after events had been emitted and has received
\* at least two later ones.
C13_Witness ==
  \E s \in StreamIds :
    /\ sse[s].attached
    /\ sse[s].from >= 2
    /\ Len(OrchestratorEvents(sse[s].log)) >= 2

\* ------------------------------------------------------------------------
\* Properties of the run's outcome
\* ------------------------------------------------------------------------

\* C14: the TriageRun row of every run that has stopped executing, with a
\* decision or with an error thrown inside execute, has endedAt set.
C14_EndedAtSetWhenStopped ==
  \A r \in RunIds :
    (RunEnded(r) /\ dbRun[r].exists) => dbRun[r].endedAt = IsSet

\* C15: the detail of every persisted trace is PII-redacted, that is,
\* redacting it again changes nothing, for traces of successful and of
\* failed steps.
C15_PersistedDetailRedacted ==
  \A r \in RunIds :
    \A j \in 1..Len(dbTraces[r]) :
      redactObject(dbTraces[r][j].detail) = dbTraces[r][j].detail

\* The traces of run r say that step succeeded / failed.
StepOk(r, step) == \E j \in 1..Len(traces[r]) : traces[r][j].step = step /\ traces[r][j].ok
StepFailed(r, step) == \E j \in 1..Len(traces[r]) : traces[r][j].step = step /\ ~traces[r][j].ok

\* The result execute() returns for run r.
Decision(r) == generateDecision(context[r], fallbackUsed[r])

\* C16: a finished run in which both critical steps succeeded and riskSignals
\* failed by its deadline has emitted tool_update(riskSignals, failure)
\* directly followed by fallback_triggered(riskSignals), holds the fallback
\* result with score 50 for riskSignals, and ends with risk medium,
\* fallbackUsed true and decision_finalized.
C16_RiskSignalsTimeoutFallsBack ==
  \A r \in RunIds :
    (/\ runPc[r] = "done"
     /\ StepOk(r, "getProfile") /\ StepOk(r, "recentTx")
     /\ StepFailed(r, "riskSignals"))
    => /\ \E j \in 1..(Len(events[r]) - 1) :
            /\ events[r][j] = <<"tool_update", "riskSignals", FALSE>>
            /\ events[r][j + 1] = <<"fallback_triggered", "riskSignals">>
       /\ context[r]["riskSignals"] = fallbackValue("riskSignals")
       /\ context[r]["riskSignals"].score = FallbackScore
       /\ Decision(r).risk = "medium"
       /\ Decision(r).fallbackUsed
       /\ PositionsOf(events[r], "decision_finalized") # {}

\* C17: in a finished run whose getProfile step failed, trace 0 has ok = false,
\* no later step was executed, and the result has risk low, proposedAction
\* false_positive and fallbackUsed true.
C17_GetProfileFailureDecision ==
  \A r \in RunIds :
    (runPc[r] = "done" /\ StepFailed(r, "getProfile"))
    => /\ traces[r] # <<>>
       /\ traces[r][1].seq = 0 /\ traces[r][1].step = "getProfile" /\ ~traces[r][1].ok
       /\ Len(traces[r]) = 1
       /\ Decision(r).risk = "low"
       /\ Decision(r).proposedAction = "false_positive"
       /\ Decision(r).fallbackUsed

AllStepsOk(r) == \A step \in StepNames : StepOk(r, step)

\* C18: a finished run in which all six steps succeeded and the riskSignals
\* score is below 50 has the result risk low, proposedAction false_positive,
\* fallbackUsed false, and exactly 6 traces, all with ok = true.
C18_LowScoreAllStepsOk ==
  \A r \in RunIds :
    (runPc[r] = "done" /\ AllStepsOk(r) /\ context[r]["riskSignals"].score < 50)
    => /\ Decision(r).risk = "low"
       /\ Decision(r).proposedAction = "false_positive"
       /\ ~Decision(r).fallbackUsed
       /\ Len(traces[r]) = 6
       /\ \A j \in 1..Len(traces[r]) : traces[r][j].ok

\* C19: the confidence of the result of every finished run lies in [0, 95];
\* when fallbackUsed is true it is at most 70 and equals min(0.7 x score, 70).
\* Confidences are counted in tenths.
C19_ConfidenceRange ==
  \A r \in RunIds :
    runPc[r] = "done" =>
      LET d == Decision(r)
      IN /\ 0 <= d.confidenceTenths /\ d.confidenceTenths <= 950
         /\ d.fallbackUsed =>
              /\ d.confidenceTenths <= 700
              /\ d.confidenceTenths = (IF d.score * 7 < 700 THEN d.score * 7 ELSE 700)

\* ------------------------------------------------------------------------
\* Properties of the OTP
\* ------------------------------------------------------------------------

\* C20: once a freeze-card call has verified an OTP for a card, no later
\* freeze-card call that presents the same OTP for that card passes the
\* verification.
C20_OtpConsumedByVerification ==
  [][\A q \in ActSlots :
       (/\ aPc[q] = "lookup"
        /\ aReq[q].op = "freeze"
        /\ <<aReq[q].cardId, aReq[q].otp>> \in verified)
       => aPc'[q] # "txn"]_vars

\* ------------------------------------------------------------------------
\* Properties of open-dispute
\* ------------------------------------------------------------------------
OpenDisputesOf(t) ==
  {j \in 1..Len(cases) : cases[j].txnId = t /\ cases[j].type = "DISPUTE"
                         /\ cases[j].status \in {"OPEN", "PENDING"}}

\* C21: whatever the order and overlap of the open-dispute calls, a
\* transaction never has more than one DISPUTE case in status OPEN or PENDING.
C21_OneOpenDisputePerTxn ==
  \A t \in TxnIds : Cardinality(OpenDisputesOf(t)) <= 1

\* ------------------------------------------------------------------------
\* Properties of the customer transactions route
\* ------------------------------------------------------------------------
ItemSet == {pageItems[j] : j \in 1..Len(pageItems)}

C23_RedactIdempotent ==
  Len(redactOutputs) >= 2 => redactOutputs[2] = redactOutputs[1]

\* ------------------------------------------------------------------------
\* Properties of steps that are not run
\* ------------------------------------------------------------------------

\* C24: every step the loop of a run has gone past, whether its agent was
\* run or its circuit was open, has a trace and a tool_update event; a step
\* passed over because of its open circuit is recorded as failed.
C24_OpenCircuitStepRecorded ==
  \A r \in RunIds :
    \A i \in 0..(runI[r] - 1) :
      /\ \E j \in 1..Len(traces[r]) : traces[r][j].seq = i
      /\ \E j \in 1..Len(events[r]) :
           events[r][j][1] = "tool_update" /\ events[r][j][2] = buildPlan[i + 1]

\* C25: every run that has started executing eventually emits
\* decision_finalized or error, even if the underlying call of a step never
\* settles.
C25_EveryRunEnds ==
  \A r \in RunIds :
    (runPc[r] = "create") ~>
      (CountOf(events[r], "decision_finalized") + CountOf(events[r], "error") >= 1)

\* The time since the run in the deadline specification was constructed.
Elapsed == now

\* C26: once the run deadline is exceeded the run awaits no further step:
\* when a step settles after the deadline, the run goes on to compose its
\* decision and has fallbackUsed set.
C26_RunDeadlineStopsRun ==
  [][\A r \in {1} :
       (/\ runPc[r] = "await"
        /\ Elapsed > RunDeadlineMs
        /\ traces'[r] # traces[r])
       => (runPc'[r] # "await" /\ fallbackUsed'[r])]_vars

\* C27: the result of an agent that arrives after its step has timed out
\* changes neither the context, the traces, the events and the decision of
\* the run nor what is stored of it, and it leaves the circuit breakers as
\* they are.
C27_LateResultIgnored ==
  [][late' # late =>
       /\ context' = context
       /\ traces' = traces
       /\ events' = events
       /\ fallbackUsed' = fallbackUsed
       /\ dbRun' = dbRun
       /\ dbTraces' = dbTraces
       /\ circuitBreakers' = circuitBreakers]_vars

\* The result of riskSignals has arrived after the timeout, while the circuit
\* of the step holds the failure and the context has no result of the agent.
C27_Witness ==
  /\ <<1, 2>> \in late
  /\ "riskSignals" \in DOMAIN circuitBreakers
  /\ circuitBreakers["riskSignals"].failures >= 1
  /\ context[1]["riskSignals"].kind # "result"

\* C28: whenever the stored run has endedAt set, all traces of the run are
\* stored.
C28_TracesStoredBeforeEndedAt ==
  \A r \in RunIds : dbRun[r].endedAt = IsSet => dbTraces[r] = traces[r]

\* ------------------------------------------------------------------------
\* Properties of the rate limiter under concurrency and store failures
\* ------------------------------------------------------------------------
RequestsInFlight(c) == {q \in RateSlots : rlClient[q] = c /\ rlPc[q] \in {"got", "set"}}

\* C29: for the requests of one client inside one window, handled in any
\* interleaving: once k requests have been handled the stored count is k,
\* and at most maxRequests of them have been passed on.
C29_EveryRequestCounted ==
  \A c \in Clients :
    /\ RequestsInFlight(c) = {} => rateKey[c].count = windowSeen[c].seen
    /\ Len(passedAt[c]) <= maxRequests

\* The read or the write of the store fails in this step of the handler of
\* slot q: the handler ends without having reached the reply, either from
\* the write or, for a request that arrives in this step, from the read
\* (then the slot holds no rateLimitInfo).
StoreFails(q) ==
  /\ rlPc'[q] = "done"
  /\ \/ rlPc[q] = "got"
     \/ /\ rlPc[q] \in {"idle", "done"}
        /\ rateRequests' # rateRequests
        /\ rlInfo'[q] = NoInfo

\* C30: when the read or the write of the store fails, the request is passed
\* on, no 429 is answered, and the stored rate-limit state is unchanged.
C30_FailOpen ==
  [][\A q \in RateSlots :
       StoreFails(q) => (rlReply'[q].status = "next" /\ rateKey' = rateKey)]_vars

\* A request has been passed on after its store write failed, although the
\* stored count of its client had reached the limit.
C30_Witness ==
  \E q \in RateSlots :
    /\ rlPc[q] = "done"
    /\ rlReply[q].status = "next"
    /\ rlInfo[q].count > maxRequests
    /\ rateKey[rlClient[q]].count = maxRequests

\* ------------------------------------------------------------------------
\* Properties of contact_customer and mark_false_positive
\* ------------------------------------------------------------------------
\* The three writes of the call in slot q are all in the store after this step.
PlainAllApplied(req) ==
  /\ Len(cases') = Len(cases) + 1
  /\ Len(caseEvents') = Len(caseEvents) + 1
  /\ req.alertId \in ActAlertIds
  /\ alertStatus'[req.alertId] =
       (IF req.op = "contact" THEN "CONTACTED" ELSE "CLOSED_FALSE_POSITIVE")

\* C31: a contact_customer or mark_false_positive call either applies its
\* Case, its CaseEvent and its alert update together or leaves the cases, the
\* case events and the alerts as they were, and it reports success only when
\* all three were applied.
C31_PlainAllOrNothing ==
  [][\A q \in ActSlots : aReq[q].op \in {"contact", "false_positive"} =>
       /\ StoredUnchanged \/ PlainAllApplied(aReq[q])
       /\ (Answers(q) /\ aResp'[q].code = 200) => PlainAllApplied(aReq[q])]_vars

\* ------------------------------------------------------------------------
\* Properties of the alert status
\* ------------------------------------------------------------------------
\* The terminal statuses, in the spellings of the specification and of the
\* routes.
TerminalStatuses ==
  {"RESOLVED", "Resolved", "CLOSED_FALSE_POSITIVE", "CONTACTED",
   "INVESTIGATING_DISPUTE_OPENED", "Investigating(Opened the Dispute)"}

\* C32: the status of an alert changes only from OPEN to INVESTIGATING and
\* from INVESTIGATING to a terminal status; in particular a terminal status
\* never changes.
C32_AlertStatusTransitions ==
  [][\A a \in ActAlertIds : alertStatus'[a] # alertStatus[a] =>
       \/ alertStatus[a] = "OPEN" /\ alertStatus'[a] = "INVESTIGATING"
       \/ alertStatus[a] = "INVESTIGATING" /\ alertStatus'[a] \in TerminalStatuses]_vars

\* C33: an EXPIRED card stays EXPIRED, whatever freeze_card calls are made
\* for it.
C33_ExpiredNeverFrozen ==
  [][\A c \in CardIds : cardStatus[c] = "EXPIRED" => cardStatus'[c] = "EXPIRED"]_vars

\* ------------------------------------------------------------------------
\* Properties of the policy checks
\* ------------------------------------------------------------------------
CheckPassed(name) ==
  \E j \in 1..Len(policyChecks) : policyChecks[j].check = name /\ policyChecks[j].passed

\* C34: for a freeze_card proposed outside Mon-Fri 09:00-17:00 the business
\* hours check fails when the role is agent and passes when the role is lead.
C34_BusinessHoursLeadOverride ==
  (/\ policyChecks # <<>>
   /\ policyInput.action = "freeze_card"
   /\ ~(policyInput.day \in 1..5 /\ policyInput.hour >= 9 /\ policyInput.hour < 17))
  => (CheckPassed("business_hours") <=> policyInput.userRole = "lead")

\* The run has emitted decision_finalized.
Completed(r) == runPc[r] = "done" /\ CountOf(events[r], "decision_finalized") >= 1

CriticalFailed(r) == StepFailed(r, "getProfile") \/ StepFailed(r, "recentTx")

\* C35: in every completed run, proposedAction = freeze_card implies that
\* riskSignals succeeded with a score of at least 80, that the final risk is
\* high and that fallbackUsed is false; a run in which riskSignals failed or
\* a critical step failed never proposes freeze_card.
C35_FreezeOnlyOnHighScore ==
  \A r \in RunIds :
    Completed(r) =>
      /\ Decision(r).proposedAction = "freeze_card" =>
           /\ StepOk(r, "riskSignals")
           /\ context[r]["riskSignals"].score >= 80
           /\ Decision(r).risk = "high"
           /\ ~Decision(r).fallbackUsed
      /\ (StepFailed(r, "riskSignals") \/ CriticalFailed(r)) =>
           Decision(r).proposedAction # "freeze_card"

\* A completed run proposes freeze_card although its decide step failed.
C35_Witness ==
  \E r \in RunIds :
    /\ Completed(r)
    /\ Decision(r).proposedAction = "freeze_card"
    /\ StepFailed(r, "decide")

\* The Start Triage handler of run r reads the alert and its open runs.
LooksUp(r) == runPc[r] = "idle" /\ runPc'[r] = "looked"

\* Run x has failed terminally: execute rejected and the run was removed
\* from activeRuns.
FailedTerminally(x) == runPc[x] = "failed" /\ x \notin activeRuns

\* C36: after a run has failed terminally, a later Start Triage for the same
\* alert is accepted: its lookup does not find the failed run as a run that
\* is still being processed (the cause of the 409 answer).
C36_RestartAfterFailure ==
  [][\A r \in RunIds :
       LooksUp(r) =>
         IF runSeen'[r] = 0 THEN TRUE ELSE ~FailedTerminally(runSeen'[r])]_vars

\* Inputs of the circuit specification: as in the breaker specification the
\* first run overlaps other runs and the agent of riskSignals may fail; the
\* clock advances between runs.
NextCircuit ==
  \/ \E r \in RunIds : InFlight \subseteq {1} /\ StartLookup(r, BreakerAlert(r))
  \/ \E r \in RunIds : StartDecide(r)
  \/ \E r \in RunIds : RunCreate(r, TRUE)
  \/ \E r \in RunIds : \E ok \in BreakerOutcomes(r), res \in TriageResults :
       StepFinish(r, ok, res, TimeoutMessage)
  \/ \E r \in RunIds : SaveRun(r, TRUE)
  \/ \E r \in RunIds : SaveTraces(r, Len(traces[r]))
  \/ InFlight = {} /\ TriageTick

SpecCircuit == Init /\ [][NextCircuit]_vars

\* Inputs of the pipeline specification: runs started one after another
\* (the first for alert a1, the others for a2) whose rows are created and
\* whose getProfile and recentTx steps succeed; every other agent call may
\* fail, and so may the writes of saveResults.
PipelineFailSteps == {"riskSignals", "kbLookup", "decide", "proposeAction"}
PipelineOutcomes(r) ==
  IF runPc[r] = "await" /\ buildPlan[runI[r] + 1] \in PipelineFailSteps THEN BOOLEAN ELSE {TRUE}

NextPipeline ==
  \/ \E r \in RunIds : InFlight = {} /\ StartLookup(r, BreakerAlert(r))
  \/ \E r \in RunIds : StartDecide(r)
  \/ \E r \in RunIds : RunCreate(r, TRUE)
  \/ \E r \in RunIds : \E ok \in PipelineOutcomes(r), res \in TriageResults :
       StepFinish(r, ok, res, TimeoutMessage)
  \/ \E r \in RunIds, ok \in BOOLEAN : SaveRun(r, ok)
  \/ \E r \in RunIds : \E k \in {0, Len(traces[r])} : SaveTraces(r, k)

SpecPipeline == Init /\ [][NextPipeline]_vars

\* The plan indices whose circuit run r checks in this step: execute's loop
\* runs from the index after the settled step (from 0 after the run's row was
\* created) up to the step it awaits next, or breaks at, or to the plan's end.
LoopStart(r) == IF runPc[r] = "create" THEN 0 ELSE runI[r] + 1

LoopSteps(r) ==
  IF runPc[r] \in {"create", "await"} /\ runPc'[r] \in {"await", "saveRun"}
  THEN {j \in LoopStart(r)..runI'[r] : j < Len(buildPlan)}
  ELSE {}

\* Step j of run r is executed (its agent is called) or skipped in this step.
Called(r, j) == j \in LoopSteps(r) /\ runPc'[r] = "await" /\ runI'[r] = j
Skipped(r, j) == j \in LoopSteps(r) /\ ~Called(r, j)

BreakerOf(cb, k) == IF k \in DOMAIN cb THEN cb[k] ELSE NoBreaker

\* The circuit of step k is open and its last failure is more than 30 s ago.
Expired(k) ==
  /\ BreakerOf(circuitBreakers, k).isOpen
  /\ now - BreakerOf(circuitBreakers, k).lastFailure > CircuitResetMs

\* A failed call of step k is recorded in this step.
FailureExecuted(k) ==
  \E r \in RunIds :
    /\ Len(traces'[r]) = Len(traces[r]) + 1
    /\ traces'[r][Len(traces'[r])].step = k
    /\ ~traces'[r][Len(traces'[r])].ok

\* C37: a call skipped because the circuit is open leaves failures and
\* lastFailure of its step as they are; the first call made more than 30 s
\* after the last executed failure is executed and closes the circuit with
\* failures reset to 0; the failure count grows by one per executed failure
\* only, and a circuit is open only with at least three failures counted, so
\* three new failures are needed to open it again.
C37_SkipsLeaveCircuitAlone ==
  [][\A k \in StepNames :
       /\ \A r \in RunIds, j \in 0..(Len(buildPlan) - 1) :
            buildPlan[j + 1] = k =>
              /\ Skipped(r, j) =>
                   /\ BreakerOf(circuitBreakers, k).isOpen
                   /\ BreakerOf(circuitBreakers', k) = BreakerOf(circuitBreakers, k)
              /\ (j \in LoopSteps(r) /\ Expired(k)) =>
                   /\ Called(r, j)
                   /\ ~BreakerOf(circuitBreakers', k).isOpen
                   /\ BreakerOf(circuitBreakers', k).failures = 0
                   /\ BreakerOf(circuitBreakers', k).lastFailure =
                        BreakerOf(circuitBreakers, k).lastFailure
       /\ BreakerOf(circuitBreakers', k).failures > BreakerOf(circuitBreakers, k).failures =>
            /\ BreakerOf(circuitBreakers', k).failures = BreakerOf(circuitBreakers, k).failures + 1
            /\ FailureExecuted(k)
       /\ BreakerOf(circuitBreakers', k).lastFailure # BreakerOf(circuitBreakers, k).lastFailure =>
            FailureExecuted(k)
       /\ BreakerOf(circuitBreakers', k).isOpen =>
            BreakerOf(circuitBreakers', k).failures >= CircuitFailThreshold]_vars

\* Three calls of riskSignals failed and none succeeded, a run skipped the
\* step while the circuit was open, and more than 30 s after the last failure
\* a run is executing the step with the circuit closed and failures at 0.
C37_Witness ==
  /\ Cardinality({r \in RunIds : StepFailed(r, "riskSignals")}) >= CircuitFailThreshold
  /\ \A r \in RunIds : ~StepOk(r, "riskSignals")
  /\ \E r \in RunIds : StepOk(r, "kbLookup") /\ ~StepFailed(r, "riskSignals")
  /\ \E r \in RunIds : runPc[r] = "await" /\ buildPlan[runI[r] + 1] = "riskSignals"
  /\ ~BreakerOf(circuitBreakers, "riskSignals").isOpen
  /\ BreakerOf(circuitBreakers, "riskSignals").failures = 0
  /\ now - BreakerOf(circuitBreakers, "riskSignals").lastFailure > CircuitResetMs

\* The request in slot q has its window updated and stored in this step.
Counts(q) == rlPc[q] = "got" /\ rlPc'[q] = "set"

\* The request in slot q is answered in this step.
Replies(q) == rlPc[q] = "set" /\ rlPc'[q] = "done"

\* C38: a request that is rejected with 429 increases the stored count by
\* one and leaves the stored resetTime unchanged; a request handled after the
\* stored resetTime starts a new window (count = 1, resetTime = now +
\* windowMs) and is passed on, however many requests were rejected before.
C38_RejectionsKeepResetTime ==
  [][\A q \in RateSlots :
       LET c == rlClient[q]
       IN /\ (Counts(q) /\ overLimit(rlInfo'[q], maxRequests)) =>
               /\ rateKey[c].present
               /\ rateKey'[c].count = rateKey[c].count + 1
               /\ rateKey'[c].resetTime = rateKey[c].resetTime
          /\ (Counts(q) /\ rateKey[c].present /\ now > rateKey[c].resetTime) =>
               /\ rateKey'[c].count = 1
               /\ rateKey'[c].resetTime = now + windowMs
               /\ rlInfo'[q].count = 1
          /\ Replies(q) =>
               rlReply'[q].status = IF rlInfo[q].count > maxRequests THEN "429" ELSE "next"
          /\ (Replies(q) /\ rlInfo[q].count = 1) => rlReply'[q].status = "next"]_vars

\* Client c1 has sent four requests with a limit of one: the first passed,
\* two were rejected, and the fourth, after resetTime, passed with count = 1.
C38_Witness ==
  /\ maxRequests = 1
  /\ rateRequests = 4
  /\ windowSeen["c2"].seen = 0
  /\ Len(passedAt["c1"]) = 2
  /\ rlPc[1] = "done"
  /\ rlClient[1] = "c1"
  /\ rlReply[1].status = "next"
  /\ rlInfo[1].count = 1
  /\ rlInfo[1].resetTime > windowMs

\* The freeze_card request in slot q has arrived with an Idempotency-Key
\* under which a freeze of another card was carried out within the TTL.
KeyOfOtherCard(q) ==
  /\ aPc[q] = "arrived"
  /\ aReq[q].op = "freeze"
  /\ aReq[q].key # ""
  /\ IsReplay(q)
  /\ applied[<<"freeze", aReq[q].key>>].body.cardId # aReq[q].cardId

\* C39: a freeze_card request that reuses a key already cached for another
\* card is answered 200 with the cached response of the first card, and the
\* card it names, the alerts, the cases and the case events do not change.
C39_KeyReusedForOtherCard ==
  [][\A q \in ActSlots :
       KeyOfOtherCard(q) =>
         /\ StoredUnchanged
         /\ aPc'[q] # aPc[q] =>
              /\ Answers(q)
              /\ aResp'[q].code = 200
              /\ aResp'[q].body = applied[<<"freeze", aReq[q].key>>].body]_vars

\* The second request named card2 under the key of the freeze of card1: it
\* was answered with the payload of card1, and card2 is still active.
C39_Witness ==
  \E q \in ActSlots :
    /\ aPc[q] = "done"
    /\ aResp[q].named = "card2"
    /\ aResp[q].code = 200
    /\ aResp[q].body.cardId = "card1"
    /\ aResp[q].body.status = "FROZEN"
    /\ cardStatus["card1"] = "FROZEN"
    /\ cardStatus["card2"] = "ACTIVE"
    /\ Len(cases) = 1
    /\ Len(caseEvents) = 1

CriticalOk(r) == StepOk(r, "getProfile") /\ StepOk(r, "recentTx")

\* The traces of run r are those of plan steps, in plan order.
InPlanOrder(r) ==
  /\ \A j \in 1..Len(traces[r]) : traces[r][j].step = buildPlan[traces[r][j].seq + 1]
  /\ \A j \in 1..Len(traces[r]) : \A h \in 1..Len(traces[r]) :
       j < h => traces[r][j].seq < traces[r][h].seq

LastEvent(r) == events[r][Len(events[r])][1]

====
